---- MODULE Spec2Model ----
(***************************************************************************)
(* Model of the billboard ETL pipeline: the four stage functions of        *)
(* src/src/processing.py (standard_cleanup, extract_geography,             *)
(* fill_dimensions, calculate_financials) and the mapping pipeline of      *)
(* src/orchestration/flow.py (apply_initial_mapping, apply_business_logic, *)
(* filter_final_columns, save_output).                                     *)
(*                                                                         *)
(* A batch (pandas DataFrame) is a record                                  *)
(*     [cols |-> sequence of column names, rows |-> sequence of rows]      *)
(* A row is a function from every modelled column name, and from INDEX     *)
(* (the pandas index label of the row), to a cell.  A column that is not   *)
(* in cols holds Null in every row.                                        *)
(*                                                                         *)
(* A cell is a record [k, n, s]:                                           *)
(*     k = "null"  a missing value (None / NaN)                            *)
(*     k = "num"   a number n                                              *)
(*     k = "str"   a string s, a sequence of tokens; a token is one        *)
(*                 character (" ", ",", a digit, a letter) or one word     *)
(*                 that holds no whitespace, comma or digit.               *)
(* Money cells count in units of 1/MoneyScale so that * 4.285, * 1.10 and  *)
(* the median of two prices are exact; every other number is an integer.   *)
(***************************************************************************)
EXTENDS Integers, Sequences, FiniteSets, TLC

VARIABLES
    pc,        \* position of the run
    df,        \* the batch being transformed
    stage_in,  \* the batch as it entered the stage (or step) that ran last
    raw,       \* the batch as loaded, before any stage
    config,    \* PipelineConfig: rename_mapping, static_mapping, keep_columns
    todo,      \* extract_geography: index labels still to reverse-geocode
    calls,     \* reverse-geocoder requests made so far, in order
    written,   \* the batches save_output wrote (at most one per run)
    chain_out, \* what the stage chain returned, one batch per completed run
    category_file,            \* CATEGORY_MAP_FILE: <<name, uuid>> entries in file order
    NORMALIZED_CATEGORY_MAP,  \* the lookup index of this process: key -> uuid
    cat_saved,                \* <<name, uuid>> of the last save_category_mapping
    transformed,              \* what transform_dataframe returned, if it ran,
                              \* and the category map that call loaded
    address_pool,             \* transform_dataframe's worker pool: the futures,
                              \* _address_cache, the geocoder requests made,
                              \* address_results and the rows' addresses
    api_pc,           \* position of the batch flow
    input_csv,        \* the records of the input CSV, each its billboard_id
    flow_run,         \* the flow's parameters and local variables
    checkpoint_file,  \* the checkpoint of the run id: <<>> or <<data>>
    batch_files,      \* the batch-result files of the run id: batch_num -> results
    output_json,      \* the output JSON: <<>> or <<output_data>>
    collection,       \* the documents of the store: _id, profile, computed_at
    api_log           \* the finished calls of the batch task, in order

pipeVars == <<pc, df, stage_in, raw, config, todo, calls, written, chain_out>>
catVars == <<category_file, NORMALIZED_CATEGORY_MAP, cat_saved, transformed,
             address_pool>>
apiVars == <<api_pc, input_csv, flow_run, checkpoint_file, batch_files, output_json,
             collection, api_log>>
vars == <<pipeVars, catVars, apiVars>>

-----------------------------------------------------------------------------
(* Cells *)

Null == [k |-> "null", n |-> 0, s |-> <<>>]
Num(x) == [k |-> "num", n |-> x, s |-> <<>>]
Str(t) == [k |-> "str", n |-> 0, s |-> t]
Word(w) == Str(<<w>>)

IsNa(c) == c.k = "null"
NotNa(c) == c.k # "null"

INDEX == "_index"

AllCols == <<"ID", "id", "billboard_id", "format_type", "media_type",
             "lighting_type", "coordinates", "latitude", "longitude",
             "city", "district", "locality", "area", "address", "landmark",
             "location", "dimensions", "width_ft", "height_ft",
             "frequency_per_minute", "quantity", "minimal_price",
             "base_rate_per_month", "card_rate_per_month",
             "base_rate_per_unit", "card_rate_per_unit",
             "image_url", "image_urls">>

Range(sq) == {sq[i] : i \in DOMAIN sq}
Keys == Range(AllCols) \cup {INDEX}

-----------------------------------------------------------------------------
(* DataFrame helpers *)

HasCol(d, c) == \E i \in DOMAIN d.cols : d.cols[i] = c

\* df[c] = ... on a column that may or may not exist: a new column is appended
WithCol(d, c) == IF HasCol(d, c) THEN d.cols ELSE Append(d.cols, c)

\* assign column c of every row from f(row)
SetCol(d, c, f(_)) ==
    [cols |-> WithCol(d, c),
     rows |-> [i \in DOMAIN d.rows |-> [d.rows[i] EXCEPT ![c] = f(d.rows[i])]]]

\* df.drop(columns=[c])
DropCol(d, c) ==
    [cols |-> SelectSeq(d.cols, LAMBDA x : x # c),
     rows |-> [i \in DOMAIN d.rows |-> [d.rows[i] EXCEPT ![c] = Null]]]

\* df.dropna(subset=cs)
DropNa(d, cs) ==
    [cols |-> d.cols,
     rows |-> SelectSeq(d.rows, LAMBDA r : \A c \in cs : NotNa(r[c]))]

\* df.drop_duplicates(subset=[c]), keep='first'
RECURSIVE DedupRows(_, _, _)
DedupRows(rows, c, seen) ==
    IF rows = <<>> THEN <<>>
    ELSE IF Head(rows)[c] \in seen THEN DedupRows(Tail(rows), c, seen)
         ELSE <<Head(rows)>> \o DedupRows(Tail(rows), c, seen \cup {Head(rows)[c]})

DropDuplicates(d, c) == [cols |-> d.cols, rows |-> DedupRows(d.rows, c, {})]

-----------------------------------------------------------------------------
(* String helpers *)

WS == {" "}
DigitTokens == <<"0", "1", "2", "3", "4", "5", "6", "7", "8", "9">>
IsDigit(t) == \E i \in DOMAIN DigitTokens : DigitTokens[i] = t
DigitVal(t) == (CHOOSE i \in DOMAIN DigitTokens : DigitTokens[i] = t) - 1

RECURSIVE LStrip(_)
LStrip(s) == IF s # <<>> /\ Head(s) \in WS THEN LStrip(Tail(s)) ELSE s

RECURSIVE RStrip(_)
RStrip(s) ==
    IF s # <<>> /\ s[Len(s)] \in WS THEN RStrip(SubSeq(s, 1, Len(s) - 1)) ELSE s

\* str.strip()
Strip(s) == RStrip(LStrip(s))

\* str(n) of an integer
RECURSIVE NatStr(_)
NatStr(n) ==
    IF n < 10 THEN <<DigitTokens[n + 1]>>
    ELSE NatStr(n \div 10) \o <<DigitTokens[(n % 10) + 1]>>

IntStr(n) == IF n < 0 THEN <<"-">> \o NatStr(-n) ELSE NatStr(n)


\* the decimal value of a non-empty sequence of digit tokens
RECURSIVE DigitsVal(_)
DigitsVal(s) ==
    IF s = <<>> THEN 0
    ELSE DigitsVal(SubSeq(s, 1, Len(s) - 1)) * 10 + DigitVal(s[Len(s)])

AllDigits(s) == s # <<>> /\ \A i \in DOMAIN s : IsDigit(s[i])

\* str.split(','): the parts between the "," tokens
RECURSIVE SplitComma(_, _)
SplitComma(s, cur) ==
    IF s = <<>> THEN <<cur>>
    ELSE IF Head(s) = "," THEN <<cur>> \o SplitComma(Tail(s), <<>>)
         ELSE SplitComma(Tail(s), Append(cur, Head(s)))

Split(s) == SplitComma(s, <<>>)

\* str.replace(',', '')
RemoveCommas(s) == SelectSeq(s, LAMBDA t : t # ",")

\* lower / UPPER / Title forms of the words of the modelled vocabulary
CaseTable ==
    << <<"led", "LED", "Led">>,
       <<"digital", "DIGITAL", "Digital">>,
       <<"unlit", "UNLIT", "Unlit">>,
       <<"neon", "NEON", "Neon">>,
       <<"non", "NON", "Non">>,
       <<"lit", "LIT", "Lit">>,
       <<"nan", "NAN", "Nan">>,
       <<"pune", "PUNE", "Pune">> >>

\* form 2 (UPPER) or 3 (Title) of one token; a token outside the table has
\* no letters to change
CaseForm(t, form) ==
    IF \E i \in DOMAIN CaseTable : t \in Range(CaseTable[i])
    THEN CaseTable[CHOOSE i \in DOMAIN CaseTable : t \in Range(CaseTable[i])][form]
    ELSE t

\* str.upper(), str.title()
Upper(s) == [i \in DOMAIN s |-> CaseForm(s[i], 2)]
Title(s) == [i \in DOMAIN s |-> CaseForm(s[i], 3)]

\* a column pandas holds as float64: only numbers, and a NaN among them
IsFloatCol(d, c) ==
    /\ \A i \in DOMAIN d.rows : d.rows[i][c].k \in {"null", "num"}
    /\ \E i \in DOMAIN d.rows : IsNa(d.rows[i][c])

\* str(val) / Series.astype(str) of one cell
AsStr(c, isFloat) ==
    CASE c.k = "null" -> <<"nan">>
      [] c.k = "num" -> IF isFloat THEN IntStr(c.n) \o <<".", "0">> ELSE IntStr(c.n)
      [] OTHER -> c.s

\* float(text): [ok |-> the text is a float literal, v |-> its value];
\* float("nan") is NaN, which a DataFrame holds as a missing value
ParseFloat(text) ==
    LET s == Strip(text)
    IN  IF AllDigits(s) THEN [ok |-> TRUE, v |-> Num(DigitsVal(s))]
        ELSE IF s # <<>> /\ Head(s) = "-" /\ AllDigits(Tail(s))
             THEN [ok |-> TRUE, v |-> Num(0 - DigitsVal(Tail(s)))]
        ELSE IF s = <<"nan">> THEN [ok |-> TRUE, v |-> Null]
        ELSE [ok |-> FALSE, v |-> Null]

\* pd.to_numeric(errors='coerce') of one cell
ToNumeric(c) ==
    CASE c.k = "str" -> ParseFloat(c.s).v
      [] OTHER -> c

-----------------------------------------------------------------------------
(* Units *)

\* money cells count 1/MoneyScale: a multiple of 4 * 1000 keeps * 4.285 and
\* * 1.10 exact for whole and half prices, the factor 7 keeps / 7 exact
MoneyScale == 4 * 1000 * 7

\* width and height cells count 1/DimScale, so the mean of up to 6 whole
\* values is exact
DimScale == 2 * 2 * 3 * 5

-----------------------------------------------------------------------------
(* Field parsers: src/src/processing.py *)

RECURSIVE DropUntilDigit(_)
DropUntilDigit(s) ==
    IF s = <<>> \/ IsDigit(Head(s)) THEN s ELSE DropUntilDigit(Tail(s))

RECURSIVE TakeDigits(_)
TakeDigits(s) ==
    IF s = <<>> \/ ~IsDigit(Head(s)) THEN <<>>
    ELSE <<Head(s)>> \o TakeDigits(Tail(s))

Abs(n) == IF n < 0 THEN 0 - n ELSE n

\* clean_numeric: re.search(r'(\d+(\.\d+)?)') finds the first run of digits,
\* so the sign of a number is lost
clean_numeric(val) ==
    IF IsNa(val) THEN Null
    ELSE IF val.k = "num" THEN Num(Abs(val.n))
    ELSE LET run == TakeDigits(DropUntilDigit(Strip(RemoveCommas(val.s))))
         IN  IF run = <<>> THEN Null ELSE Num(DigitsVal(run) * MoneyScale)

CoordMissingStrings == {<<>>, <<"0", ",", "0">>, <<"0">>, <<"nan">>}

\* parse_coord_string: "A,B" is read as (latitude = B, longitude = A)
parse_coord_string(val) ==
    IF IsNa(val) \/ Strip(AsStr(val, FALSE)) \in CoordMissingStrings
    THEN <<Null, Null>>
    ELSE LET parts == Split(AsStr(val, FALSE))
         IN  IF Len(parts) >= 2 /\ ParseFloat(parts[2]).ok /\ ParseFloat(parts[1]).ok
             THEN <<ParseFloat(parts[2]).v, ParseFloat(parts[1]).v>>
             ELSE <<Null, Null>>

RECURSIVE RunEnd(_, _)
RunEnd(s, i) == IF i < Len(s) /\ IsDigit(s[i + 1]) THEN RunEnd(s, i + 1) ELSE i

RECURSIVE SkipWs(_, _)
SkipWs(s, k) == IF k <= Len(s) /\ s[k] \in WS THEN SkipWs(s, k + 1) ELSE k

\* re.search(r'(\d+)\s*' + marker, s, re.IGNORECASE): the first run of digits
\* that is followed, after optional whitespace, by the marker
RECURSIVE DimScan(_, _, _)
DimScan(s, i, markers) ==
    IF i > Len(s) THEN Null
    ELSE IF ~IsDigit(s[i]) THEN DimScan(s, i + 1, markers)
    ELSE LET j == RunEnd(s, i)
             k == SkipWs(s, j + 1)
         IN  IF k <= Len(s) /\ s[k] \in markers
             THEN Num(DigitsVal(SubSeq(s, i, j)) * DimScale)
             ELSE DimScan(s, j + 1, markers)

MarkerTokens(marker) == IF marker = "W" THEN {"W", "w"} ELSE {"H", "h"}

\* extract_dim_str
extract_dim_str(s, marker) ==
    IF IsNa(s) THEN Null ELSE DimScan(AsStr(s, FALSE), 1, MarkerTokens(marker))

-----------------------------------------------------------------------------
(* standard_cleanup: src/src/processing.py *)

format_map ==
    << << <<"Bus", " ", "Shelter">>, "Bus_Shelter" >>,
       << <<"Skywalk">>, "Gantry" >>,
       << <<"Digital", " ", "OOH">>, "Digital_OOH" >>,
       << <<"Road", " ", "Median">>, "Road_Median" >>,
       << <<"Pole", " ", "Kiosk">>, "Pole_Kiosk" >>,
       << <<"Hoarding">>, "Hoarding" >> >>

lighting_map ==
    << << <<"NON", " ", "LIT">>, "Unlit" >>,
       << <<"UNLIT">>, "Unlit" >>,
       << <<"BACK", " ", "LIT">>, "Backlit" >>,
       << <<"FRONT", " ", "LIT">>, "Frontlit" >>,
       << <<"LED">>, "Digital" >>,
       << <<"DIGITAL">>, "Digital" >> >>

\* dict.get(x, default) on a cell
MapGet(table, c, default) ==
    IF c.k = "str" /\ \E i \in DOMAIN table : table[i][1] = c.s
    THEN Word(table[CHOOSE i \in DOMAIN table : table[i][1] = c.s][2])
    ELSE default

\* CleanIds with drop_duplicates run before the identifiers are trimmed
CleanIdsDedupFirst(d) ==
    LET isFloat == IsFloatCol(d, "billboard_id")
        d2 == DropDuplicates(DropNa(d, {"billboard_id"}), "billboard_id")
    IN  SetCol(d2, "billboard_id",
               LAMBDA r : Str(Strip(AsStr(r["billboard_id"], isFloat))))

\* lines 47-49: df.dropna, astype(str).str.strip(), drop_duplicates
CleanIds(d) ==
    LET isFloat == IsFloatCol(d, "billboard_id")
        d2 == DropNa(d, {"billboard_id"})
        d3 == SetCol(d2, "billboard_id",
                     LAMBDA r : Str(Strip(AsStr(r["billboard_id"], isFloat))))
    IN  DropDuplicates(d3, "billboard_id")

\* MapFormatType with Series.map(format_map): a name outside the map gives NaN
MapFormatTypeNoDefault(d) ==
    IF HasCol(d, "format_type")
    THEN SetCol(d, "format_type", LAMBDA r : MapGet(format_map, r["format_type"], Null))
    ELSE d

\* lines 60-61
MapFormatType(d) ==
    IF HasCol(d, "format_type")
    THEN SetCol(d, "format_type",
                LAMBDA r : MapGet(format_map, r["format_type"], r["format_type"]))
    ELSE d

\* lines 68-70
MapLightingType(d) ==
    IF HasCol(d, "lighting_type")
    THEN LET isFloat == IsFloatCol(d, "lighting_type")
             key(r) == Strip(Upper(AsStr(r["lighting_type"], isFloat)))
         IN  SetCol(d, "lighting_type",
                    LAMBDA r : MapGet(lighting_map, Str(key(r)), Str(Title(key(r)))))
    ELSE d

standard_cleanup(d) ==
    LET d1 == IF HasCol(d, "id") THEN DropCol(d, "id") ELSE d
    IN  IF ~HasCol(d1, "billboard_id")
        THEN [cols |-> d1.cols, rows |-> <<>>]
        ELSE MapLightingType(MapFormatType(CleanIds(d1)))

-----------------------------------------------------------------------------
(* extract_geography: src/src/processing.py *)

\* if c not in df.columns: df[c] = np.nan
EnsureCol(d, c) == [cols |-> WithCol(d, c), rows |-> d.rows]

MapRows(d, f(_)) ==
    [cols |-> d.cols, rows |-> [i \in DOMAIN d.rows |-> f(d.rows[i])]]

\* lines 83-88: rows with either coordinate missing get both from the parse
SmartParseRow(r) ==
    IF IsNa(r["latitude"]) \/ IsNa(r["longitude"])
    THEN LET parsed == parse_coord_string(r["coordinates"])
         IN  [r EXCEPT !["latitude"] = parsed[1], !["longitude"] = parsed[2]]
    ELSE r

SmartParse(d) ==
    IF HasCol(d, "coordinates") THEN MapRows(d, LAMBDA r : SmartParseRow(r)) ELSE d

\* lines 91-92
ForceNumeric(d, c) == SetCol(d, c, LAMBDA r : ToNumeric(r[c]))

\* lines 95-98
Hierarchy(d) ==
    IF HasCol(d, "city")
    THEN LET isFloat == IsFloatCol(d, "city")
             d1 == SetCol(d, "city", LAMBDA r : Str(Title(AsStr(r["city"], isFloat))))
         IN  IF ~HasCol(d1, "district")
             THEN SetCol(d1, "district", LAMBDA r : r["city"])
             ELSE SetCol(d1, "district",
                         LAMBDA r : IF IsNa(r["district"]) THEN r["city"]
                                    ELSE r["district"])
    ELSE d

HasComma(s) == \E i \in DOMAIN s : s[i] = ","

\* lines 100-101
AreaFromLocality(d) ==
    IF HasCol(d, "locality") /\ ~HasCol(d, "area")
    THEN LET isFloat == IsFloatCol(d, "locality")
             x(r) == AsStr(r["locality"], isFloat)
         IN  SetCol(d, "area",
                    LAMBDA r : IF HasComma(x(r)) THEN Str(Strip(Split(x(r))[1]))
                               ELSE Str(x(r)))
    ELSE d

\* lines 104-105
LocationFromAddress(d) ==
    IF HasCol(d, "address") /\ ~HasCol(d, "location")
    THEN SetCol(d, "location", LAMBDA r : r["address"])
    ELSE d

\* lines 76-109: everything before the reverse-geocoding loop
GeoPrepare(d) ==
    LET d1 == EnsureCol(EnsureCol(d, "latitude"), "longitude")
        d2 == SmartParse(d1)
        d3 == ForceNumeric(ForceNumeric(d2, "latitude"), "longitude")
        d4 == LocationFromAddress(AreaFromLocality(Hierarchy(d3)))
    IN  EnsureCol(d4, "location")

\* lines 111-114
LocMissing(r) ==
    IsNa(r["location"]) \/ Strip(AsStr(r["location"], FALSE)) = <<>>
HasCoords(r) == NotNa(r["latitude"]) /\ NotNa(r["longitude"])
ToGeocode(r) == LocMissing(r) /\ HasCoords(r)

\* GeocodeIndices without the test for coordinates
GeocodeIndicesAnyRow(d) ==
    LET sel == SelectSeq(d.rows, LAMBDA r : LocMissing(r))
    IN  [i \in DOMAIN sel |-> sel[i][INDEX]]

\* line 134: df[rows_to_geocode].index
GeocodeIndices(d) ==
    LET sel == SelectSeq(d.rows, LAMBDA r : ToGeocode(r))
    IN  [i \in DOMAIN sel |-> sel[i][INDEX]]

\* what get_address can return: the address of the answer, or None when the
\* service finds nothing or raises
GeocoderAnswers == {Null, Word("Addr")}

\* df.at[idx, 'location'] = res
SetAt(d, idx, c, v) ==
    MapRows(d, LAMBDA r : IF r[INDEX] = idx THEN [r EXCEPT ![c] = v] ELSE r)

RowAt(d, idx) == d.rows[CHOOSE i \in DOMAIN d.rows : d.rows[i][INDEX] = idx]

-----------------------------------------------------------------------------
(* fill_dimensions: src/src/processing.py *)

\* pd.to_numeric(errors='coerce') on a column whose numbers count 1/scale
ToNumericScaled(c, scale) ==
    LET v == ToNumeric(c)
    IN  IF c.k = "str" /\ v.k = "num" THEN Num(v.n * scale) ELSE v

\* lines 170-177: width first, then height, each only where it is missing
ExtractDimsRow(r) ==
    LET w == IF IsNa(r["width_ft"]) THEN extract_dim_str(r["dimensions"], "W")
             ELSE r["width_ft"]
        h == IF IsNa(r["height_ft"]) THEN extract_dim_str(r["dimensions"], "H")
             ELSE r["height_ft"]
    IN  [r EXCEPT !["width_ft"] = w, !["height_ft"] = h]

ExtractDims(d) ==
    IF HasCol(d, "dimensions") THEN MapRows(d, LAMBDA r : ExtractDimsRow(r)) ELSE d

RECURSIVE SumCol(_, _)
SumCol(rows, c) ==
    IF rows = <<>> THEN 0 ELSE Head(rows)[c].n + SumCol(Tail(rows), c)

\* df.groupby('format_type')[c].transform('mean') for row r: the mean of the
\* non-null values of the rows with r's format_type; NaN for a null key
GroupMean(d, r, c) ==
    LET grp == SelectSeq(d.rows,
                          LAMBDA x : x["format_type"] = r["format_type"] /\ NotNa(x[c]))
    IN  IF IsNa(r["format_type"]) \/ grp = <<>> THEN Null
        ELSE Num(SumCol(grp, c) \div Len(grp))

FillNa(c, v) == IF IsNa(c) THEN v ELSE c

BusShelterWidth == 25 * DimScale
BusShelterHeight == 5 * DimScale
DefaultWidth == 20 * DimScale
DefaultHeight == 10 * DimScale

\* FillDimRow with the Bus_Shelter default written without the isna() mask
FillDimRowUnmasked(d, r, c, busShelter, fallback) ==
    LET mask_bs == r["format_type"] = Word("Bus_Shelter")
        v1 == IF mask_bs THEN Num(busShelter) ELSE r[c]
    IN  FillNa(FillNa(v1, GroupMean(d, r, c)), Num(fallback))

\* lines 184-189 for one column
FillDimRow(d, r, c, busShelter, fallback) ==
    LET mask_bs == r["format_type"] = Word("Bus_Shelter")
        v1 == IF mask_bs /\ IsNa(r[c]) THEN Num(busShelter) ELSE r[c]
    IN  FillNa(FillNa(v1, GroupMean(d, r, c)), Num(fallback))

\* lines 180-189
FillByFormat(d) ==
    IF HasCol(d, "format_type")
    THEN MapRows(d, LAMBDA r :
            [r EXCEPT !["width_ft"] =
                          FillDimRow(d, r, "width_ft", BusShelterWidth, DefaultWidth),
                      !["height_ft"] =
                          FillDimRow(d, r, "height_ft", BusShelterHeight, DefaultHeight)])
    ELSE d

\* lines 193-195
IsDigital(d, r) ==
    \/ HasCol(d, "format_type") /\ r["format_type"] = Word("Digital_OOH")
    \/ HasCol(d, "lighting_type") /\ r["lighting_type"] = Word("Digital")

\* lines 192-198
FillFrequency(d) ==
    SetCol(d, "frequency_per_minute",
           LAMBDA r : FillNa(r["frequency_per_minute"],
                             IF IsDigital(d, r) THEN Num(10) ELSE Num(0)))

\* lines 200-201
FillQuantity(d) ==
    SetCol(d, "quantity",
           LAMBDA r : LET x == FillNa(r["quantity"], Num(1))
                      IN  IF x = Num(0) THEN Num(1) ELSE x)

fill_dimensions(d) ==
    LET d1 == EnsureCol(EnsureCol(d, "width_ft"), "height_ft")
        d2 == SetCol(SetCol(d1, "width_ft",
                            LAMBDA r : ToNumericScaled(r["width_ft"], DimScale)),
                     "height_ft",
                     LAMBDA r : ToNumericScaled(r["height_ft"], DimScale))
    IN  FillQuantity(FillFrequency(FillByFormat(ExtractDims(d2))))

-----------------------------------------------------------------------------
(* calculate_financials: src/src/processing.py *)

price_cols == <<"minimal_price", "base_rate_per_month", "card_rate_per_month">>

\* lines 212-213
CleanPrices(d) ==
    MapRows(d, LAMBDA r :
        [c \in DOMAIN r |->
            IF c \in Range(price_cols) /\ HasCol(d, c) THEN clean_numeric(r[c])
            ELSE r[c]])

\* Median that takes the lower of the two middle values of an even count
MedianLower(d, c) ==
    LET present == SelectSeq(d.rows, LAMBDA r : NotNa(r[c]))
        vals == SortSeq([i \in DOMAIN present |-> present[i][c].n],
                        LAMBDA a, b : a < b)
        n == Len(vals)
    IN  IF n = 0 THEN Null ELSE Num(vals[(n + 1) \div 2])

\* Series.median(): of the non-null values; NaN when there is none
Median(d, c) ==
    LET present == SelectSeq(d.rows, LAMBDA r : NotNa(r[c]))
        vals == SortSeq([i \in DOMAIN present |-> present[i][c].n],
                        LAMBDA a, b : a < b)
        n == Len(vals)
    IN  IF n = 0 THEN Null
        ELSE IF n % 2 = 1 THEN Num(vals[(n + 1) \div 2])
        ELSE Num((vals[n \div 2] + vals[(n \div 2) + 1]) \div 2)

FallbackPrice == 15000 * MoneyScale

\* x * 4.285 and x * 1.10 on money cells
Times4285(n) == (n \div 1000) * 4285
Times110(n) == (n \div 10) * 11

\* lines 217-222
ImputeBaseRate(d) ==
    IF (\E i \in DOMAIN d.rows : IsNa(d.rows[i]["base_rate_per_month"]))
       /\ HasCol(d, "minimal_price")
    THEN LET m == Median(d, "minimal_price")
             median_price == IF IsNa(m) \/ m.n = 0 THEN Num(FallbackPrice) ELSE m
         IN  MapRows(d, LAMBDA r :
                 IF IsNa(r["base_rate_per_month"])
                 THEN [r EXCEPT !["base_rate_per_month"] =
                          Num(Times4285(FillNa(r["minimal_price"], median_price).n))]
                 ELSE r)
    ELSE d

\* lines 224-227
DeriveCardRate(d) ==
    SetCol(d, "card_rate_per_month",
           LAMBDA r : IF IsNa(r["card_rate_per_month"])
                      THEN IF IsNa(r["base_rate_per_month"]) THEN Null
                           ELSE Num(Times110(r["base_rate_per_month"].n))
                      ELSE r["card_rate_per_month"])

\* lines 229-230
MirrorUnitRates(d) ==
    SetCol(SetCol(d, "base_rate_per_unit", LAMBDA r : r["base_rate_per_month"]),
           "card_rate_per_unit", LAMBDA r : r["card_rate_per_month"])

\* calculate_financials that consumes the price column it rated from
calculate_financials_consuming(d) ==
    DropCol(MirrorUnitRates(DeriveCardRate(ImputeBaseRate(
                EnsureCol(CleanPrices(d), "base_rate_per_month")))),
            "minimal_price")

calculate_financials(d) ==
    MirrorUnitRates(DeriveCardRate(ImputeBaseRate(
        EnsureCol(CleanPrices(d), "base_rate_per_month"))))

-----------------------------------------------------------------------------
(* Helpers of src/orchestration/flow.py *)

\* parse_coords: every part must be a float and there must be exactly two;
\* "A,B" is read as (latitude = B, longitude = A)
parse_coords(coord_str) ==
    IF IsNa(coord_str) \/ Strip(AsStr(coord_str, FALSE)) \in {<<>>, <<"0", ",", "0">>}
    THEN <<Null, Null>>
    ELSE LET parts == Split(AsStr(coord_str, FALSE))
         IN  IF (\A i \in DOMAIN parts : ParseFloat(parts[i]).ok) /\ Len(parts) = 2
             THEN <<ParseFloat(parts[2]).v, ParseFloat(parts[1]).v>>
             ELSE <<Null, Null>>

\* extract_dimensions
extract_dimensions(dim_str) ==
    IF IsNa(dim_str) \/ Strip(AsStr(dim_str, FALSE)) = <<>> THEN <<Null, Null>>
    ELSE <<DimScan(AsStr(dim_str, FALSE), 1, MarkerTokens("W")),
           DimScan(AsStr(dim_str, FALSE), 1, MarkerTokens("H"))>>

\* a control character of the class [\000-\010]|[\013-\014]|[\016-\037]
ControlChars == {"<SOH>"}

\* remove_illegal_chars
remove_illegal_chars(val) ==
    IF val.k = "str" THEN Str(SelectSeq(val.s, LAMBDA t : t \notin ControlChars))
    ELSE val

-----------------------------------------------------------------------------
(* apply_initial_mapping: src/orchestration/flow.py *)

\* df.rename(columns=rename_mapping); rename is a set of
\* <<source_col, target_col>> pairs
Rename(d, rename) ==
    LET used == {p \in rename : HasCol(d, p[1])}
        to(c) == {p \in used : p[2] = c}
        from(c) == {p \in used : p[1] = c}
    IN  [cols |-> [i \in DOMAIN d.cols |->
                    IF from(d.cols[i]) # {}
                    THEN (CHOOSE p \in from(d.cols[i]) : TRUE)[2]
                    ELSE d.cols[i]],
         rows |-> [i \in DOMAIN d.rows |->
                    [c \in DOMAIN d.rows[i] |->
                        IF to(c) # {} THEN d.rows[i][(CHOOSE p \in to(c) : TRUE)[1]]
                        ELSE IF from(c) # {} THEN Null
                        ELSE d.rows[i][c]]]]

\* for col, val in static_mapping.items(): df[col] = val
RECURSIVE AddStatic(_, _)
AddStatic(d, static) ==
    IF static = <<>> THEN d
    ELSE AddStatic(SetCol(d, Head(static)[1], LAMBDA r : Head(static)[2]), Tail(static))

apply_initial_mapping(d, rename_mapping, static_mapping) ==
    AddStatic(Rename(d, rename_mapping), static_mapping)

-----------------------------------------------------------------------------
(* apply_business_logic: src/orchestration/flow.py, one operator per           *)
(* numbered step of the function                                               *)

\* 1. ID Processing
AblIdProcessing(d) == IF HasCol(d, "billboard_id") THEN CleanIds(d) ELSE d

\* 2. Categories & Lighting
AblCategories(d) ==
    LET isFloat == IsFloatCol(d, "lighting_type")
        key(r) == Upper(Strip(AsStr(r["lighting_type"], isFloat)))
        d1 == IF HasCol(d, "lighting_type")
              THEN SetCol(d, "lighting_type",
                          LAMBDA r : FillNa(MapGet(lighting_map, Str(key(r)), Null),
                                            r["lighting_type"]))
              ELSE d
    IN  IF HasCol(d1, "media_type") /\ ~HasCol(d1, "format_type")
        THEN SetCol(d1, "format_type",
                    LAMBDA r : MapGet(format_map, r["media_type"], Null))
        ELSE d1

\* 3. Coordinates
AblCoordinates(d) ==
    IF HasCol(d, "coordinates")
    THEN LET d1 == SetCol(d, "latitude", LAMBDA r : parse_coords(r["coordinates"])[1])
             d2 == SetCol(d1, "longitude", LAMBDA r : parse_coords(r["coordinates"])[2])
         IN  DropNa(d2, {"latitude", "longitude"})
    ELSE d

\* 4. Dimensions
AblDimensions(d) ==
    IF HasCol(d, "dimensions")
    THEN LET d1 == SetCol(d, "width_ft", LAMBDA r : extract_dimensions(r["dimensions"])[1])
             d2 == SetCol(d1, "height_ft",
                          LAMBDA r : extract_dimensions(r["dimensions"])[2])
             fallback(r) ==
                 LET mask_bs == r["format_type"] = Word("Bus_Shelter")
                     w == IF mask_bs /\ IsNa(r["width_ft"]) THEN Num(BusShelterWidth)
                          ELSE r["width_ft"]
                     h == IF mask_bs /\ IsNa(r["height_ft"]) THEN Num(BusShelterHeight)
                          ELSE r["height_ft"]
                 IN  [r EXCEPT !["width_ft"] = FillNa(w, Num(DefaultWidth)),
                               !["height_ft"] = FillNa(h, Num(DefaultHeight))]
         IN  IF HasCol(d2, "format_type") THEN MapRows(d2, LAMBDA r : fallback(r))
             ELSE d2
    ELSE d

\* 5. Frequency
AblFrequency(d) ==
    SetCol(d, "frequency_per_minute",
           LAMBDA r : IF IsDigital(d, r) THEN Num(10) ELSE Num(0))

\* 6. Quantity: float(x) raises on text that is no float literal
QuantityRaises(d) ==
    /\ HasCol(d, "quantity")
    /\ \E i \in DOMAIN d.rows :
          LET x == d.rows[i]["quantity"] IN x.k = "str" /\ ParseFloat(x.s).v.k # "num"

AblQuantity(d) ==
    IF HasCol(d, "quantity")
    THEN SetCol(d, "quantity",
                LAMBDA r : LET x == ToNumeric(FillNa(r["quantity"], Num(1)))
                           IN  IF x = Num(0) THEN Num(1) ELSE x)
    ELSE d

\* 7. Location (City, Area): lines 141-144
AblLocality(d) ==
    IF HasCol(d, "locality")
    THEN LET isFloat == IsFloatCol(d, "locality")
             x(r) == AsStr(r["locality"], isFloat)
             parts(r) == Split(x(r))
             city(r) == IF HasComma(x(r)) THEN Str(Strip(parts(r)[Len(parts(r))]))
                        ELSE Word("Mumbai")
             d1 == SetCol(d, "city", LAMBDA r : city(r))
             d2 == SetCol(d1, "district", LAMBDA r : r["city"])
         IN  SetCol(d2, "area", LAMBDA r : Str(Strip(parts(r)[1])))
    ELSE d

\* 7. Location: lines 146-150
AblLocation(d) ==
    IF ~HasCol(d, "location")
    THEN IF HasCol(d, "address")
         THEN SetCol(d, "location",
                     LAMBDA r : FillNa(r["address"],
                                       IF HasCol(d, "landmark") THEN r["landmark"]
                                       ELSE Str(<<>>)))
         ELSE IF HasCol(d, "landmark")
              THEN SetCol(d, "location", LAMBDA r : r["landmark"])
              ELSE d
    ELSE d

\* (x / 7) * 30 on money cells
Div7Times30(n) == (n \div 7) * 30

\* 8. Rates
AblRates(d) ==
    IF HasCol(d, "minimal_price")
    THEN LET d1 == SetCol(d, "minimal_price",
                          LAMBDA r : ToNumericScaled(r["minimal_price"], MoneyScale))
             base(r) == Num(Div7Times30(FillNa(r["minimal_price"], Num(FallbackPrice)).n))
             d2 == SetCol(d1, "base_rate_per_month", LAMBDA r : base(r))
             d3 == SetCol(d2, "base_rate_per_unit", LAMBDA r : r["base_rate_per_month"])
             d4 == SetCol(d3, "card_rate_per_month",
                          LAMBDA r : Num(Times110(r["base_rate_per_month"].n)))
         IN  SetCol(d4, "card_rate_per_unit", LAMBDA r : r["card_rate_per_month"])
    ELSE d

\* 9. Images
AblImages(d) ==
    IF HasCol(d, "image_url") /\ ~HasCol(d, "image_urls")
    THEN SetCol(d, "image_urls", LAMBDA r : r["image_url"])
    ELSE d

\* 10. Final Cleanup
AblFinalCleanup(d) ==
    MapRows(d, LAMBDA r : [c \in DOMAIN r |-> remove_illegal_chars(r[c])])

-----------------------------------------------------------------------------
(* filter_final_columns: src/orchestration/flow.py *)

generated_cols ==
    <<"billboard_id", "latitude", "longitude", "width_ft", "height_ft",
      "frequency_per_minute", "quantity", "lighting_type", "format_type",
      "city", "area", "district", "location",
      "base_rate_per_month", "base_rate_per_unit",
      "card_rate_per_month", "card_rate_per_unit", "image_urls">>

Reverse(s) == [i \in DOMAIN s |-> s[Len(s) + 1 - i]]

\* list(set(...)): the iteration order of a set of strings is fixed by the
\* hash seed of the interpreter process
SetOrder(seed) == IF seed = 1 THEN AllCols ELSE Reverse(AllCols)

filter_final_columns(d, keep_columns, seed) ==
    LET final == Range(keep_columns) \cup Range(generated_cols)
        existing_cols == SelectSeq(SetOrder(seed),
                                    LAMBDA c : c \in final /\ HasCol(d, c))
    IN  [cols |-> existing_cols,
         rows |-> [i \in DOMAIN d.rows |->
                    [c \in DOMAIN d.rows[i] |->
                        IF c = INDEX \/ c \in Range(existing_cols) THEN d.rows[i][c]
                        ELSE Null]]]

-----------------------------------------------------------------------------
(* The run: mapping_pipeline of src/orchestration/flow.py, and the stage     *)
(* chain of src/src/processing.py on the same mapped batch                    *)

\* how many times the chain is run again on its own output
MaxReruns == 1

\* how many runs of mapping_pipeline a behaviour holds
MaxRuns == 2

\* mapping_pipeline lines 221-222: load_data, then apply_initial_mapping
ApplyInitialMapping ==
    /\ pc = "start"
    /\ df' = apply_initial_mapping(df, config.rename_mapping, config.static_mapping)
    /\ stage_in' = df
    /\ pc' = "mapped"
    /\ UNCHANGED <<raw, config, todo, calls, written, chain_out>>
    /\ UNCHANGED catVars
    /\ UNCHANGED apiVars

RunStandardCleanup ==
    /\ pc = "mapped"
    /\ df' = standard_cleanup(df)
    /\ stage_in' = df
    /\ pc' = "cleaned"
    /\ UNCHANGED <<raw, config, todo, calls, written, chain_out>>
    /\ UNCHANGED catVars
    /\ UNCHANGED apiVars

\* extract_geography up to the geocoding loop (lines 76-138)
ExtractGeography ==
    /\ pc = "cleaned"
    /\ df' = GeoPrepare(df)
    /\ stage_in' = df
    /\ todo' = GeocodeIndices(GeoPrepare(df))
    /\ pc' = "geocoding"
    /\ UNCHANGED <<raw, config, calls, written, chain_out>>
    /\ UNCHANGED catVars
    /\ UNCHANGED apiVars

\* one pass of the loop of lines 140-147
GeocodeRow ==
    /\ pc = "geocoding"
    /\ todo # <<>>
    /\ \E res \in GeocoderAnswers :
          /\ df' = SetAt(df, Head(todo), "location", res)
          /\ calls' = Append(calls, <<Head(todo), RowAt(df, Head(todo))["latitude"],
                                      RowAt(df, Head(todo))["longitude"], res>>)
    /\ todo' = Tail(todo)
    /\ UNCHANGED <<pc, stage_in, raw, config, written, chain_out>>
    /\ UNCHANGED catVars
    /\ UNCHANGED apiVars

\* lines 149-156
FinishGeography ==
    /\ pc = "geocoding"
    /\ todo = <<>>
    /\ pc' = "geo_done"
    /\ UNCHANGED <<df, stage_in, raw, config, todo, calls, written, chain_out>>
    /\ UNCHANGED catVars
    /\ UNCHANGED apiVars

RunFillDimensions ==
    /\ pc = "geo_done"
    /\ df' = fill_dimensions(df)
    /\ stage_in' = df
    /\ pc' = "filled"
    /\ UNCHANGED <<raw, config, todo, calls, written, chain_out>>
    /\ UNCHANGED catVars
    /\ UNCHANGED apiVars

RunCalculateFinancials ==
    /\ pc = "filled"
    /\ df' = calculate_financials(df)
    /\ stage_in' = df
    /\ pc' = "priced"
    /\ UNCHANGED <<raw, config, todo, calls, written, chain_out>>
    /\ UNCHANGED catVars
    /\ UNCHANGED apiVars

\* the positions of apply_business_logic: AblPc[k] is where step k starts
AblPc == <<"mapped", "abl_2", "abl_3", "abl_4", "abl_5", "abl_6", "abl_7",
           "abl_8", "abl_9", "abl_10", "abl_done">>

\* the batch after numbered step k of apply_business_logic
AblApply(k, d) ==
    CASE k = 1 -> AblIdProcessing(d)
      [] k = 2 -> AblCategories(d)
      [] k = 3 -> AblCoordinates(d)
      [] k = 4 -> AblDimensions(d)
      [] k = 5 -> AblFrequency(d)
      [] k = 6 -> AblQuantity(d)
      [] k = 7 -> AblLocation(AblLocality(d))
      [] k = 8 -> AblRates(d)
      [] k = 9 -> AblImages(d)
      [] k = 10 -> AblFinalCleanup(d)

\* apply_business_logic runs its ten steps in order; step 6 raises on a
\* quantity that is no number, and the flow run fails there
ApplyBusinessLogicStep ==
    \E k \in 1..10 :
        /\ pc = AblPc[k]
        /\ stage_in' = df
        /\ IF k = 6 /\ QuantityRaises(df)
           THEN df' = df /\ pc' = "failed"
           ELSE df' = AblApply(k, df) /\ pc' = AblPc[k + 1]
        /\ UNCHANGED <<raw, config, todo, calls, written, chain_out>>
        /\ UNCHANGED catVars
        /\ UNCHANGED apiVars

FilterFinalColumns ==
    /\ pc = "abl_done"
    /\ df' = filter_final_columns(df, config.keep_columns, config.hash_seed)
    /\ stage_in' = df
    /\ pc' = "filtered"
    /\ UNCHANGED <<raw, config, todo, calls, written, chain_out>>
    /\ UNCHANGED catVars
    /\ UNCHANGED apiVars

\* save_output: df.to_csv(output_path, index=False)
SaveOutput ==
    /\ pc = "filtered"
    /\ written' = Append(written, df)
    /\ pc' = "saved"
    /\ UNCHANGED <<df, stage_in, raw, config, todo, calls, chain_out>>
    /\ UNCHANGED catVars
    /\ UNCHANGED apiVars

NextChain ==
    \/ ApplyInitialMapping
    \/ RunStandardCleanup
    \/ ExtractGeography
    \/ GeocodeRow
    \/ FinishGeography
    \/ RunFillDimensions
    \/ RunCalculateFinancials

\* the chain is run again on the batch it returned
RerunChain ==
    /\ pc = "priced"
    /\ Len(chain_out) < MaxReruns
    /\ chain_out' = Append(chain_out, df)
    /\ pc' = "mapped"
    /\ UNCHANGED <<df, stage_in, raw, config, todo, calls, written>>
    /\ UNCHANGED catVars
    /\ UNCHANGED apiVars

NextRerun == NextChain \/ RerunChain

NextFlow ==
    \/ ApplyInitialMapping
    \/ ApplyBusinessLogicStep
    \/ FilterFinalColumns
    \/ SaveOutput

\* mapping_pipeline is started again on the same file with the same config,
\* in a new interpreter process: the hash seed of that process is its own
StartNextRun ==
    /\ pc = "saved"
    /\ Len(written) < MaxRuns
    /\ \E seed \in {1, 2} : config' = [config EXCEPT !.hash_seed = seed]
    /\ df' = raw
    /\ stage_in' = raw
    /\ pc' = "start"
    /\ UNCHANGED <<raw, todo, calls, written, chain_out>>
    /\ UNCHANGED catVars
    /\ UNCHANGED apiVars

NextRuns == NextFlow \/ StartNextRun

Next == NextChain \/ NextFlow

-----------------------------------------------------------------------------
(* Input batches *)

BlankRow(i) == [c \in Keys |-> IF c = INDEX THEN Num(i) ELSE Null]

\* the batch read_csv returns: cols in file order, index labels 0..n-1
Batch(cols, cells) ==
    [cols |-> cols,
     rows |-> [i \in DOMAIN cells |-> cells[i] @@ BlankRow(i - 1)]]

NoMapping == [rename_mapping |-> {}, static_mapping |-> <<>>,
              keep_columns |-> <<>>, hash_seed |-> 1]

\* no worker pool has been started
NoPool == [rows |-> <<>>, futures |-> <<>>, cache |-> <<>>, requests |-> <<>>,
           address_results |-> <<>>, output |-> <<>>]

\* no batch flow has been started
NoFlow ==
    /\ api_pc = "idle"
    /\ input_csv = <<>>
    /\ flow_run = <<>>
    /\ checkpoint_file = <<>>
    /\ batch_files = <<>>
    /\ output_json = <<>>
    /\ collection = {}
    /\ api_log = <<>>

\* the state after load_config and load_data
Loaded(batch, cfg) ==
    /\ pc = "start"
    /\ df = batch
    /\ stage_in = batch
    /\ raw = batch
    /\ config = cfg
    /\ todo = <<>>
    /\ calls = <<>>
    /\ written = <<>>
    /\ chain_out = <<>>
    /\ category_file = <<>>
    /\ NORMALIZED_CATEGORY_MAP = <<>>
    /\ cat_saved = <<>>
    /\ transformed = [status |-> "none", category_map |-> <<>>,
                      output |-> <<>>, missing |-> <<>>]
    /\ address_pool = NoPool
    /\ NoFlow

\* all sequences of 0..n elements of S
SeqsUpTo(S, n) == UNION {[1..k -> S] : k \in 0..n}


-----------------------------------------------------------------------------
(* SpecIds: batches that differ in their identifiers, through both variants *)

MaxIdRows == 3

InitIds ==
    LET \* identifiers as a vendor file holds them: missing, padded, repeated, numeric
        IdCells ==
            {Null, Str(<<"a">>), Str(<<" ", "a">>), Str(<<"a", " ">>), Str(<<"b">>),
             Str(<<" ">>), Str(<<"1">>), Num(1)}
        IdBatch(idcol, ids) ==
            Batch(<<"id", idcol, "latitude", "longitude", "location">>,
                  [i \in DOMAIN ids |->
                      ("id" :> Num(i)) @@ (idcol :> ids[i])
                      @@ ("latitude" :> Num(12)) @@ ("longitude" :> Num(77))
                      @@ ("location" :> IF i = 1 THEN Null ELSE Word("Addr"))])
        IdConfigs ==
            {[NoMapping EXCEPT !.rename_mapping = rn] : rn \in {{}, {<<"ID", "billboard_id">>}}}
    IN  \E idcol \in {"ID", "billboard_id"}, ids \in SeqsUpTo(IdCells, MaxIdRows),
           cfg \in IdConfigs :
            Loaded(IdBatch(idcol, ids), cfg)

SpecIds == InitIds /\ [][Next]_vars

-----------------------------------------------------------------------------
(* Claims about the identifier step *)

PosOf(d, idx) == CHOOSE i \in DOMAIN d.rows : d.rows[i][INDEX] = idx

\* the identifier of an input row as text, whitespace-trimmed
TrimmedId(d, r) == Strip(AsStr(r["billboard_id"], IsFloatCol(d, "billboard_id")))

\* standard_cleanup, or step 1 of apply_business_logic, has just run on a
\* batch that has a billboard_id column
AfterIdStep == pc \in {"cleaned", "abl_2"} /\ HasCol(stage_in, "billboard_id")

\* C1: after the identifier step no output row has a null billboard_id, no two
\* output rows have the same trimmed billboard_id, every output row is the
\* first input row that carries its identifier, every identifier of the input
\* has its row in the output, and the output rows are in input order.
C1_IdsCleaned ==
    AfterIdStep =>
        /\ \A i \in DOMAIN df.rows : NotNa(df.rows[i]["billboard_id"])
        /\ \A i, j \in DOMAIN df.rows :
              i # j => Strip(AsStr(df.rows[i]["billboard_id"], FALSE))
                         # Strip(AsStr(df.rows[j]["billboard_id"], FALSE))
        /\ \A i \in DOMAIN df.rows : \E k \in DOMAIN stage_in.rows :
              /\ stage_in.rows[k][INDEX] = df.rows[i][INDEX]
              /\ NotNa(stage_in.rows[k]["billboard_id"])
              /\ df.rows[i]["billboard_id"] = Str(TrimmedId(stage_in, stage_in.rows[k]))
              /\ \A m \in 1..(k - 1) :
                    NotNa(stage_in.rows[m]["billboard_id"]) =>
                        TrimmedId(stage_in, stage_in.rows[m])
                          # TrimmedId(stage_in, stage_in.rows[k])
        /\ \A k \in DOMAIN stage_in.rows :
              NotNa(stage_in.rows[k]["billboard_id"]) =>
                  \E i \in DOMAIN df.rows :
                      df.rows[i]["billboard_id"] = Str(TrimmedId(stage_in, stage_in.rows[k]))
        /\ \A i, j \in DOMAIN df.rows :
              i < j => PosOf(stage_in, df.rows[i][INDEX]) < PosOf(stage_in, df.rows[j][INDEX])

\* a batch of three rows whose first and last identifiers differ only in
\* padding: the last row is dropped, the first two are kept
C1_Witness ==
    /\ AfterIdStep
    /\ Len(stage_in.rows) = 3
    /\ stage_in.rows[1]["billboard_id"] = Str(<<" ", "a">>)
    /\ stage_in.rows[2]["billboard_id"] = Str(<<"b">>)
    /\ stage_in.rows[3]["billboard_id"] = Str(<<"a", " ">>)
    /\ Len(df.rows) = 2
    /\ df.rows[1]["billboard_id"] = Str(<<"a">>)
    /\ df.rows[2]["billboard_id"] = Str(<<"b">>)


\* C9: when the mapped batch has no billboard_id column, the identifier step
\* of either variant (standard_cleanup, step 1 of apply_business_logic) leaves
\* zero rows.
C9_FailClosed ==
    (pc \in {"cleaned", "abl_2"} /\ ~HasCol(stage_in, "billboard_id")) =>
        df.rows = <<>>

-----------------------------------------------------------------------------
(* SpecGeo: batches that differ in their coordinates, through the stage chain *)

MaxGeoRows == 2

\* identifiers of the rows of a batch whose identifiers are all different
RowIds == <<"a", "b", "c", "d", "e">>

InitGeo ==
    LET LatCells == {Null, Num(12)}
        LonCells == {Null, Num(77)}
        \* a coordinates column as a vendor file holds it
        CoordCells ==
            {Null,
             Str(<<"7", "7", ",", "1", "2">>),
             Str(<<"7", "7", ",", " ", "1", "2">>),
             Str(<<"0", ",", "0">>),
             Str(<<"x">>)}
        GeoBatch(split, single, cells) ==
            Batch(<<"billboard_id">>
                    \o (IF split THEN <<"latitude", "longitude">> ELSE <<>>)
                    \o (IF single THEN <<"coordinates">> ELSE <<>>),
                  [i \in DOMAIN cells |->
                      ("billboard_id" :> Word(RowIds[i]))
                      @@ ("latitude" :> IF split THEN cells[i][1] ELSE Null)
                      @@ ("longitude" :> IF split THEN cells[i][2] ELSE Null)
                      @@ ("coordinates" :> IF single THEN cells[i][3] ELSE Null)])
    IN  \E split \in BOOLEAN, single \in BOOLEAN,
           cells \in SeqsUpTo(LatCells \X LonCells \X CoordCells, MaxGeoRows) :
            Loaded(GeoBatch(split, single, cells), NoMapping)

SpecGeo == InitGeo /\ [][NextChain]_vars

\* C2: after extract_geography every row has latitude and longitude both
\* non-null or both null.
C2_CoordinatesPaired ==
    pc = "geo_done" =>
        \A i \in DOMAIN df.rows :
            IsNa(df.rows[i]["latitude"]) <=> IsNa(df.rows[i]["longitude"])

\* C3: extract_geography leaves every latitude and every longitude that was
\* present in its input unchanged.
C3_PresentCoordinateKept ==
    pc = "geo_done" =>
        \A i \in DOMAIN df.rows : \A c \in {"latitude", "longitude"} :
            NotNa(stage_in.rows[i][c]) => df.rows[i][c] = stage_in.rows[i][c]

-----------------------------------------------------------------------------
(* SpecDim: batches that differ in their dimensions and inventory fields,    *)
(* through the stage chain                                                    *)

MaxDimRows == 2
MaxInvRows == 1

InitDimensions ==
    LET WidthCells == {Null, Num(12 * DimScale)}
        HeightCells == {Null, Num(6 * DimScale)}
        DimensionCells == {Null, Str(<<"1", "0", "W", " ", "5", "h">>)}
        FormatCells == {Null, Str(<<"Bus", " ", "Shelter">>), Word("Hoarding")}
        DimBatch(hasFormat, hasSplit, hasSingle, cells) ==
            Batch(<<"billboard_id", "location">>
                    \o (IF hasFormat THEN <<"format_type">> ELSE <<>>)
                    \o (IF hasSplit THEN <<"width_ft", "height_ft">> ELSE <<>>)
                    \o (IF hasSingle THEN <<"dimensions">> ELSE <<>>),
                  [i \in DOMAIN cells |->
                      ("billboard_id" :> Word(RowIds[i])) @@ ("location" :> Word("Addr"))
                      @@ ("format_type" :> IF hasFormat THEN cells[i][1] ELSE Null)
                      @@ ("width_ft" :> IF hasSplit THEN cells[i][2] ELSE Null)
                      @@ ("height_ft" :> IF hasSplit THEN cells[i][3] ELSE Null)
                      @@ ("dimensions" :> IF hasSingle THEN cells[i][4] ELSE Null)])
    IN  \E hasFormat \in BOOLEAN, hasSplit \in BOOLEAN, hasSingle \in BOOLEAN,
           cells \in SeqsUpTo(FormatCells \X WidthCells \X HeightCells \X DimensionCells,
                              MaxDimRows) :
            Loaded(DimBatch(hasFormat, hasSplit, hasSingle, cells), NoMapping)

InitInventory ==
    LET QuantityCells == {Null, Num(0), Num(1), Num(5), Num(0 - 1)}
        FrequencyCells == {Null, Num(3)}
        LightingCells == {Null, Word("led"), Word("neon")}
        DigitalFormatCells == {Null, Str(<<"Digital", " ", "OOH">>)}
        InvBatch(hasQuantity, hasFrequency, hasKind, cells) ==
            Batch(<<"billboard_id", "latitude", "longitude">>
                    \o (IF hasQuantity THEN <<"quantity">> ELSE <<>>)
                    \o (IF hasFrequency THEN <<"frequency_per_minute">> ELSE <<>>)
                    \o (IF hasKind THEN <<"lighting_type", "format_type">> ELSE <<>>),
                  [i \in DOMAIN cells |->
                      ("billboard_id" :> Word(RowIds[i]))
                      @@ ("latitude" :> Num(12)) @@ ("longitude" :> Num(77))
                      @@ ("quantity" :> IF hasQuantity THEN cells[i][1] ELSE Null)
                      @@ ("frequency_per_minute" :> IF hasFrequency THEN cells[i][2] ELSE Null)
                      @@ ("lighting_type" :> IF hasKind THEN cells[i][3] ELSE Null)
                      @@ ("format_type" :> IF hasKind THEN cells[i][4] ELSE Null)])
    IN  \E hasQuantity \in BOOLEAN, hasFrequency \in BOOLEAN, hasKind \in BOOLEAN,
           cells \in SeqsUpTo(QuantityCells \X FrequencyCells \X LightingCells
                                \X DigitalFormatCells, MaxInvRows) :
            Loaded(InvBatch(hasQuantity, hasFrequency, hasKind, cells), NoMapping)

InitDim == InitDimensions \/ InitInventory

SpecDim == InitDim /\ [][NextChain]_vars

\* C4: after fill_dimensions every row has a quantity of at least 1.
C4_QuantityAtLeastOne ==
    pc = "filled" =>
        \A i \in DOMAIN df.rows :
            df.rows[i]["quantity"].k = "num" /\ df.rows[i]["quantity"].n >= 1

\* C5: after fill_dimensions every row has a width_ft and a height_ft.
C5_DimensionsFilled ==
    pc = "filled" =>
        \A i \in DOMAIN df.rows :
            NotNa(df.rows[i]["width_ft"]) /\ NotNa(df.rows[i]["height_ft"])

\* C6: fill_dimensions leaves every number that its input holds in width_ft,
\* height_ft or frequency_per_minute as it is.
C6_ExplicitValueKept ==
    pc = "filled" =>
        \A i \in DOMAIN df.rows :
            \A c \in {"width_ft", "height_ft", "frequency_per_minute"} :
                stage_in.rows[i][c].k = "num" => df.rows[i][c] = stage_in.rows[i][c]

\* a Bus_Shelter row with a width of 12, no height and the dimensions string
\* "10W 5h": the height is taken from the string, the width stays 12
C6_Witness ==
    /\ pc = "filled"
    /\ \E i \in DOMAIN df.rows :
          /\ stage_in.rows[i]["format_type"] = Word("Bus_Shelter")
          /\ stage_in.rows[i]["width_ft"] = Num(12 * DimScale)
          /\ IsNa(stage_in.rows[i]["height_ft"])
          /\ NotNa(stage_in.rows[i]["dimensions"])
          /\ df.rows[i]["width_ft"] = Num(12 * DimScale)
          /\ df.rows[i]["height_ft"] = Num(5 * DimScale)

-----------------------------------------------------------------------------
(* SpecFin: batches that differ in their prices and rates, through the stage *)
(* chain                                                                      *)

MaxFinRows == 3
MaxRateRows == 2

InitPrices ==
    LET \* prices as a vendor file holds them: missing, zero, plain and labelled
        PriceCells ==
            {Null, Num(0), Num(10000 * MoneyScale), Num(16000 * MoneyScale),
             Str(<<"R", "s", " ", "5">>)}
        BaseCells == {Null, Num(200 * MoneyScale)}
        PriceBatch(hasPrice, hasBase, cells) ==
            Batch(<<"billboard_id", "latitude", "longitude", "location">>
                    \o (IF hasPrice THEN <<"minimal_price">> ELSE <<>>)
                    \o (IF hasBase THEN <<"base_rate_per_month">> ELSE <<>>),
                  [i \in DOMAIN cells |->
                      ("billboard_id" :> Word(RowIds[i]))
                      @@ ("latitude" :> Num(12)) @@ ("longitude" :> Num(77))
                      @@ ("location" :> IF i = 1 THEN Null ELSE Word("Addr"))
                      @@ ("minimal_price" :> IF hasPrice THEN cells[i][1] ELSE Null)
                      @@ ("base_rate_per_month" :> IF hasBase THEN cells[i][2] ELSE Null)])
    IN  \E hasPrice \in BOOLEAN, hasBase \in BOOLEAN,
           cells \in SeqsUpTo(PriceCells \X BaseCells, MaxFinRows) :
            Loaded(PriceBatch(hasPrice, hasBase, cells), NoMapping)

InitRates ==
    LET BaseCells == {Null, Num(200 * MoneyScale)}
        CardCells == {Null, Num(100 * MoneyScale), Num(300 * MoneyScale)}
        RateBatch(hasPrice, hasCard, cells) ==
            Batch(<<"billboard_id", "location", "base_rate_per_month">>
                    \o (IF hasPrice THEN <<"minimal_price">> ELSE <<>>)
                    \o (IF hasCard THEN <<"card_rate_per_month">> ELSE <<>>),
                  [i \in DOMAIN cells |->
                      ("billboard_id" :> Word(RowIds[i])) @@ ("location" :> Word("Addr"))
                      @@ ("base_rate_per_month" :> cells[i][1])
                      @@ ("minimal_price" :> IF hasPrice THEN Num(10000 * MoneyScale) ELSE Null)
                      @@ ("card_rate_per_month" :> IF hasCard THEN cells[i][2] ELSE Null)])
    IN  \E hasPrice \in BOOLEAN, hasCard \in BOOLEAN,
           cells \in SeqsUpTo(BaseCells \X CardCells, MaxRateRows) :
            Loaded(RateBatch(hasPrice, hasCard, cells), NoMapping)

InitFin == InitPrices \/ InitRates

SpecFin == InitFin /\ [][NextChain]_vars

\* C7: after calculate_financials every row that has both rates has a
\* card_rate_per_month that is at least its base_rate_per_month.
C7_CardAtLeastBase ==
    pc = "priced" =>
        \A i \in DOMAIN df.rows :
            (NotNa(df.rows[i]["base_rate_per_month"])
                /\ NotNa(df.rows[i]["card_rate_per_month"]))
            => df.rows[i]["card_rate_per_month"].n >= df.rows[i]["base_rate_per_month"].n

\* C8: after calculate_financials on a batch with a minimal_price column,
\* every row that came without a base_rate_per_month has the rate p * 4.285,
\* where p is the price of the row or, when the row has none, the median of
\* the prices of the batch, or 15000 when that median is missing or zero.
C8_BaseRateImputed ==
    (pc = "priced" /\ HasCol(stage_in, "minimal_price")) =>
        LET price(i) == clean_numeric(stage_in.rows[i]["minimal_price"])
            priced == {i \in DOMAIN stage_in.rows : NotNa(price(i))}
            n == Cardinality(priced)
            kth(k) == CHOOSE v \in {price(i).n : i \in priced} :
                          /\ Cardinality({i \in priced : price(i).n < v}) < k
                          /\ Cardinality({i \in priced : price(i).n <= v}) >= k
            median == IF n = 0 THEN 0
                      ELSE IF n % 2 = 1 THEN kth((n + 1) \div 2)
                      ELSE (kth(n \div 2) + kth((n \div 2) + 1)) \div 2
            fill == IF median = 0 THEN 15000 * MoneyScale ELSE median
            p(i) == IF NotNa(price(i)) THEN price(i).n ELSE fill
        IN  \A i \in DOMAIN df.rows :
                IsNa(stage_in.rows[i]["base_rate_per_month"]) =>
                    df.rows[i]["base_rate_per_month"] = Num(Times4285(p(i)))

\* prices 10000, 16000 and none, no base rate given: the third row is rated
\* from the median 13000
C8_Witness ==
    /\ pc = "priced"
    /\ HasCol(stage_in, "minimal_price")
    /\ Len(stage_in.rows) = 3
    /\ stage_in.rows[1]["minimal_price"] = Num(10000 * MoneyScale)
    /\ stage_in.rows[2]["minimal_price"] = Num(16000 * MoneyScale)
    /\ IsNa(stage_in.rows[3]["minimal_price"])
    /\ IsNa(stage_in.rows[3]["base_rate_per_month"])
    /\ df.rows[3]["base_rate_per_month"] = Num(13 * 4285 * MoneyScale)

-----------------------------------------------------------------------------
(* SpecFlow: batches that differ in their coordinates and images, through    *)
(* mapping_pipeline                                                           *)

MaxFlowRows == 2

InitFlow ==
    LET \* "A,B" strings of a coordinates column; the same places as a
        \* <<latitude, longitude>> pair when the file has the two columns
        CoordCells ==
            {Null, Str(<<"7", "7", ",", "1", "2">>), Str(<<"0", ",", " ", "0">>)}
        Pair(c) ==
            IF c = Null THEN <<Null, Null>>
            ELSE IF c = Str(<<"0", ",", " ", "0">>) THEN <<Num(0), Num(0)>>
            ELSE <<Num(12), Num(77)>>
        ImageCells == {Null, Word("[]"), Word("http")}
        Places == {<<>>, <<"coordinates">>, <<"latitude", "longitude">>}
        Images == {<<>>, <<"image_urls">>, <<"image_url">>}
        Quantities == {<<>>, <<"quantity">>}
        FlowBatch(place, image, quantity, cells) ==
            Batch(<<"billboard_id", "landmark">> \o place \o image \o quantity,
                  [i \in DOMAIN cells |->
                      ("billboard_id" :> Word(RowIds[i])) @@ ("landmark" :> Word("Mall"))
                      @@ ("coordinates" :>
                            IF place = <<"coordinates">> THEN cells[i][1] ELSE Null)
                      @@ ("latitude" :>
                            IF Len(place) = 2 THEN Pair(cells[i][1])[1] ELSE Null)
                      @@ ("longitude" :>
                            IF Len(place) = 2 THEN Pair(cells[i][1])[2] ELSE Null)
                      @@ ("image_urls" :>
                            IF image = <<"image_urls">> THEN cells[i][2] ELSE Null)
                      @@ ("image_url" :>
                            IF image = <<"image_url">> THEN cells[i][2] ELSE Null)
                      @@ ("quantity" :>
                            IF quantity # <<>> THEN Word("two") ELSE Null)])
    IN  \E place \in Places, image \in Images, quantity \in Quantities,
           seed \in {1, 2},
           cells \in SeqsUpTo(CoordCells \X ImageCells, MaxFlowRows) :
            Loaded(FlowBatch(place, image, quantity, cells),
                   [NoMapping EXCEPT !.keep_columns = <<"landmark">>,
                                     !.hash_seed = seed])

SpecFlow == InitFlow /\ [][NextFlow]_vars

\* C10: every row of a batch that mapping_pipeline writes has an image value
\* that is neither null nor an empty placeholder, and coordinates that are
\* neither null nor both 0; so a batch without an image column or without
\* coordinate columns is written with no row.
C10_WrittenRowsValid ==
    \A k \in DOMAIN written : \A i \in DOMAIN written[k].rows :
        LET r == written[k].rows[i]
        IN  /\ NotNa(r["image_urls"])
            /\ r["image_urls"] \notin {Str(<<>>), Word("[]"), Word("nan"),
                                       Word("null"), Word("none")}
            /\ NotNa(r["latitude"]) /\ NotNa(r["longitude"])
            /\ ~(r["latitude"] = Num(0) /\ r["longitude"] = Num(0))

-----------------------------------------------------------------------------
(* SpecChain: batches of mixed rows, through the stage chain and through it  *)
(* again                                                                      *)

MaxChainRows == 2

InitChain ==
    LET \* rows as a vendor file holds them; a field not named is empty
        Rows ==
            { ("billboard_id" :> Str(<<" ", "a">>))
                @@ ("format_type" :> Str(<<"Bus", " ", "Shelter">>))
                @@ ("lighting_type" :> Word("led"))
                @@ ("coordinates" :> Str(<<"7", "7", ",", "1", "2">>))
                @@ ("dimensions" :> Str(<<"1", "0", "W", " ", "5", "h">>))
                @@ ("city" :> Word("pune"))
                @@ ("locality" :> Str(<<"Baner", ",", " ", "pune">>))
                @@ ("minimal_price" :> Str(<<"R", "s", " ", "5">>)),
              ("billboard_id" :> Str(<<"a", " ">>))
                @@ ("format_type" :> Word("Skywalk"))
                @@ ("longitude" :> Num(77))
                @@ ("coordinates" :> Str(<<"x">>))
                @@ ("width_ft" :> Num(12 * DimScale))
                @@ ("quantity" :> Num(0))
                @@ ("address" :> Word("Addr"))
                @@ ("card_rate_per_month" :> Num(100 * MoneyScale)),
              ("billboard_id" :> Num(1))
                @@ ("lighting_type" :> Str(<<"non", " ", "lit">>))
                @@ ("latitude" :> Num(12)) @@ ("longitude" :> Num(77))
                @@ ("locality" :> Word("Baner"))
                @@ ("quantity" :> Num(0 - 1))
                @@ ("minimal_price" :> Num(10000 * MoneyScale)),
              ("billboard_id" :> Word("b"))
                @@ ("format_type" :> Word("Hoarding"))
                @@ ("lighting_type" :> Word("neon"))
                @@ ("latitude" :> Num(12))
                @@ ("height_ft" :> Num(6 * DimScale))
                @@ ("minimal_price" :> Num(0))
                @@ ("base_rate_per_month" :> Num(200 * MoneyScale)),
              ("billboard_id" :> Null)
                @@ ("coordinates" :> Str(<<"0", ",", "0">>)) }
        Optional == {<<>>, <<"format_type">>, <<"address">>, <<"minimal_price">>,
                     <<"format_type", "address", "minimal_price">>}
    IN  \E cells \in SeqsUpTo(Rows, MaxChainRows), optional \in Optional :
            Loaded(Batch(<<"id", "billboard_id", "lighting_type", "coordinates",
                           "latitude", "longitude", "city", "locality", "dimensions",
                           "width_ft", "height_ft", "quantity",
                           "base_rate_per_month", "card_rate_per_month">> \o optional,
                         [i \in DOMAIN cells |->
                             [c \in DOMAIN cells[i] |->
                                 IF c \in {"format_type", "address", "minimal_price"}
                                    /\ c \notin Range(optional)
                                 THEN Null ELSE cells[i][c]]]),
                   NoMapping)

SpecChain == InitChain /\ [][NextRerun]_vars

\* the reverse geocoder gave the same answer whenever it was asked again for
\* the same row and the same coordinates
SameAnswers ==
    \A i, j \in DOMAIN calls :
        (calls[i][1] = calls[j][1] /\ calls[i][2] = calls[j][2]
            /\ calls[i][3] = calls[j][3]) => calls[i][4] = calls[j][4]

-----------------------------------------------------------------------------
(* SpecRuns: mapping_pipeline run more than once on the same file *)

SpecRuns == InitFlow /\ [][NextRuns]_vars

\* C12: the runs of mapping_pipeline on the same input file with the same
\* PipelineConfig write the same output: the same columns in the same
\* left-to-right order, and the same rows.
C12_RunsIdentical ==
    \A i, j \in DOMAIN written : written[i] = written[j]

-----------------------------------------------------------------------------
(* Category map and transform_dataframe: src/src/post_processing.py *)

\* normalize_key of a string: lower case, whitespace and underscores removed
normalize_key(text) ==
    SelectSeq([i \in DOMAIN text |-> CaseForm(text[i], 1)],
              LAMBDA tok : tok \notin WS \cup {"_"})

\* lines 59-63: the index built from the file; of two names with the same key
\* the later one in file order wins
refresh_category_map(file) ==
    LET keys == {normalize_key(file[i][1]) : i \in DOMAIN file}
        last(k) == CHOOSE i \in DOMAIN file :
                       /\ normalize_key(file[i][1]) = k
                       /\ \A j \in DOMAIN file :
                             normalize_key(file[j][1]) = k => j <= i
    IN  [k \in keys |-> file[last(k)][2]]

\* get_category_id with the query taken as it is, not normalised
get_category_id_exact(index, format_type) ==
    IF format_type.k # "str" THEN Null
    ELSE IF format_type.s \in DOMAIN index THEN Word(index[format_type.s])
    ELSE Null

\* get_category_id: None for a value that is no string or has no entry
get_category_id(index, format_type) ==
    IF format_type.k # "str" THEN Null
    ELSE LET key == normalize_key(format_type.s)
         IN  IF key \in DOMAIN index THEN Word(index[key]) ELSE Null

\* how many entries the category file may hold
MaxCatEntries == 2

\* save_category_mapping(name, uuid), called before the batch is transformed:
\* current_map[name] = uuid keeps the place of a name the file already has
\* and appends a new one; the file is written and the index rebuilt from it
SaveCategoryMapping ==
    \E name \in {category_file[i][1] : i \in DOMAIN category_file}
                  \cup {<<"Non", " ", "Lit">>, <<"non", "_", "lit">>, <<"led">>},
       uuid \in {"u1", "u2"} :
        LET current_map ==
                IF \E i \in DOMAIN category_file : category_file[i][1] = name
                THEN [i \in DOMAIN category_file |->
                        IF category_file[i][1] = name THEN <<name, uuid>>
                        ELSE category_file[i]]
                ELSE Append(category_file, <<name, uuid>>)
        IN  /\ pc = "post"
            /\ Len(current_map) <= MaxCatEntries
            /\ category_file' = current_map
            /\ NORMALIZED_CATEGORY_MAP' = refresh_category_map(current_map)
            /\ cat_saved' = <<name, uuid>>
            /\ UNCHANGED <<pipeVars, transformed, address_pool>>
            /\ UNCHANGED apiVars

\* line 240: astype(str), 'nan' to '', runs of whitespace to one space, strip
CleanFormat(c, isFloat) ==
    LET s0 == AsStr(c, isFloat)
        s == IF s0 = <<"nan">> THEN <<>> ELSE s0
        kept == {i \in DOMAIN s : ~(s[i] \in WS /\ i > 1 /\ s[i - 1] \in WS)}
        at(j) == CHOOSE i \in kept : Cardinality({k \in kept : k <= i}) = j
    IN  Str(Strip([j \in 1..Cardinality(kept) |->
                      IF s[at(j)] \in WS THEN " " ELSE s[at(j)]]))

\* lines 243-244: transform_dataframe raises without a lat and a lon column,
\* which it takes from latitude / longitude or parses from coordinates
MissingCoordinateColumns(d) ==
    ~HasCol(d, "coordinates")
        /\ (~HasCol(d, "latitude") \/ ~HasCol(d, "longitude"))

\* lines 258-316: one record per row, and the set of format_type strings
\* that have no category
transform_dataframe(d, index) ==
    LET isFloat == IsFloatCol(d, "format_type")
        format_type(r) == IF HasCol(d, "format_type")
                          THEN CleanFormat(r["format_type"], isFloat) ELSE Null
        truthy(c) == c.k = "str" /\ c.s # <<>>
    IN  [output |-> [i \in DOMAIN d.rows |->
                        [source_iid |-> d.rows[i]["billboard_id"],
                         format_type |-> format_type(d.rows[i]),
                         category_id |->
                             get_category_id(index, format_type(d.rows[i]))]],
         missing_categories |->
             {format_type(d.rows[i]) : i \in
                 {j \in DOMAIN d.rows :
                     /\ get_category_id(index, format_type(d.rows[j])) = Null
                     /\ truthy(format_type(d.rows[j]))}}]

\* transform_dataframe(df): refresh_category_map() first; list(set) returns
\* the missing categories in some order
TransformDataframe ==
    /\ pc = "post"
    /\ NORMALIZED_CATEGORY_MAP' = refresh_category_map(category_file)
    /\ IF MissingCoordinateColumns(df)
       THEN /\ pc' = "post_failed"
            /\ transformed' = [transformed EXCEPT !.status = "raised"]
       ELSE LET res == transform_dataframe(df, refresh_category_map(category_file))
                n == Cardinality(res.missing_categories)
            IN  /\ pc' = "post_done"
                /\ \E order \in [1..n -> res.missing_categories] :
                      /\ \A i, j \in 1..n : i # j => order[i] # order[j]
                      /\ transformed' = [status |-> "returned",
                                         category_map |-> category_file,
                                         output |-> res.output,
                                         missing |-> order]
    /\ UNCHANGED <<df, stage_in, raw, config, todo, calls, written, chain_out>>
    /\ UNCHANGED <<category_file, cat_saved, address_pool>>
    /\ UNCHANGED apiVars

NextCat == SaveCategoryMapping \/ TransformDataframe

-----------------------------------------------------------------------------
(* SpecCat: category files and batches that differ in their format_type *)

MaxCatRows == 2

InitCat ==
    LET Names == {<<"Non", " ", "Lit">>, <<"non", "_", "lit">>, <<"led">>}
        Files == {f \in SeqsUpTo(Names \X {"u1", "u2"}, MaxCatEntries) :
                     \A i, j \in DOMAIN f : i # j => f[i][1] # f[j][1]}
        FormatCells == {Null, Str(<<"NON", " ", " ", "LIT">>), Word("neon")}
        Columns == {<<"billboard_id", "coordinates", "format_type">>,
                    <<"billboard_id", "latitude", "longitude">>,
                    <<"billboard_id", "format_type">>}
    IN  \E file \in Files, cols \in Columns,
           cells \in SeqsUpTo(FormatCells, MaxCatRows) :
            /\ pc = "post"
            /\ df = Batch(cols,
                          [i \in DOMAIN cells |->
                              ("billboard_id" :> Word(RowIds[i]))
                              @@ ("format_type" :>
                                    IF "format_type" \in Range(cols) THEN cells[i]
                                    ELSE Null)])
            /\ stage_in = df
            /\ raw = df
            /\ config = NoMapping
            /\ todo = <<>>
            /\ calls = <<>>
            /\ written = <<>>
            /\ chain_out = <<>>
            /\ category_file = file
            \* lines 49-55: the index as built when the module is imported;
            \* on names of letters, spaces and underscores it has the keys
            \* of normalize_key
            /\ NORMALIZED_CATEGORY_MAP = refresh_category_map(file)
            /\ cat_saved = <<>>
            /\ transformed = [status |-> "none", category_map |-> <<>>,
                              output |-> <<>>, missing |-> <<>>]
            /\ address_pool = NoPool
            /\ NoFlow

SpecCat == InitCat /\ [][NextCat]_vars

\* C13: after save_category_mapping(name, uuid), get_category_id(q) is uuid
\* for every string q that has the normalised key of name.
C13_SavedIsFound ==
    cat_saved # <<>> =>
        \A q \in {<<"Non", " ", "Lit">>, <<"non", "_", "lit">>, <<"NON", "LIT">>,
                  <<"led">>, <<"LED", " ">>} :
            normalize_key(q) = normalize_key(cat_saved[1]) =>
                get_category_id(NORMALIZED_CATEGORY_MAP, Str(q)) = Word(cat_saved[2])

\* C14: transform_dataframe returns a null category_id for exactly the rows
\* whose format_type has no entry under its normalised key in the category
\* file, and its missing categories hold each non-empty format_type string of
\* such a row once, and nothing else.
C14_MissingCategories ==
    transformed.status = "returned" =>
        LET out == transformed.output
            mapped(c) == /\ c.k = "str"
                         /\ \E j \in DOMAIN transformed.category_map :
                               normalize_key(transformed.category_map[j][1])
                                 = normalize_key(c.s)
            missing == transformed.missing
        IN  /\ Len(out) = Len(df.rows)
            /\ \A i \in DOMAIN out :
                  out[i].category_id = Null <=> ~mapped(out[i].format_type)
            /\ \A i, j \in DOMAIN missing : i # j => missing[i] # missing[j]
            /\ \A i \in DOMAIN missing :
                  /\ ~mapped(missing[i])
                  /\ missing[i].s # <<>>
                  /\ \E k \in DOMAIN out : out[k].format_type = missing[i]
            /\ \A k \in DOMAIN out :
                  (out[k].format_type.k = "str" /\ out[k].format_type.s # <<>>
                      /\ ~mapped(out[k].format_type))
                  => \E i \in DOMAIN missing : missing[i] = out[k].format_type

\* two rows carry the same unmapped format_type "neon" while the category
\* file has entries: the string is reported once
C14_Witness ==
    /\ transformed.status = "returned"
    /\ Len(transformed.output) = 2
    /\ transformed.output[1].format_type = Word("neon")
    /\ transformed.output[2].format_type = Word("neon")
    /\ transformed.output[1].category_id = Null
    /\ Len(transformed.missing) = 1
    /\ transformed.category_map # <<>>

-----------------------------------------------------------------------------
(* The batch flows: run_billboard_api_pipeline_v2 of billboard_api_runner.py *)
(* with its checkpoint and batch-result files, and run_billboard_api_pipeline *)
(* of billboard_api_flow.py.  A record is its billboard_id, a number; the     *)
(* run id is the same in every run, so there is one checkpoint file and one   *)
(* set of batch-result files.                                                 *)

\* BATCH_SIZE of billboard_api_runner.py and of billboard_api_flow.py (line 8)
BATCH_SIZE == [runner |-> 10, flow |-> 25]
RETRY_COUNT == 3

\* records[start_idx:end_idx] of the loop index i
BatchOf(records, i, size) ==
    SubSeq(records, i * size + 1,
           IF i * size + size < Len(records) THEN i * size + size ELSE Len(records))

\* the "results" of a 200 answer: the service decides what they hold
call_billboard_api(batch, answer) ==
    LET result(k) ==
            IF answer = "mixed" /\ k > 1
            THEN [billboard_id |-> batch[k], status |-> "error", error |-> "rejected"]
            ELSE [billboard_id |-> batch[k], status |-> "success", error |-> "",
                  profile |-> "profile"]
    IN  [k \in 1..(IF answer = "short" THEN Len(batch) - 1 ELSE Len(batch)) |-> result(k)]

\* the except branch: one error entry per record of the batch
ErrorResultsOnce(batch, e) ==
    <<[billboard_id |-> batch[1], status |-> "error", error |-> e]>>

ErrorResults(batch, e) ==
    [k \in DOMAIN batch |-> [billboard_id |-> batch[k], status |-> "error", error |-> e]]

Successes(results) == SelectSeq(results, LAMBDA r : r.status = "success")

\* database.py: the ids of billboard_ids that have a document
get_existing_billboard_ids(coll, billboard_ids) ==
    {id \in Range(billboard_ids) : \E d \in coll : d._id = id}

\* insert_one in place of update_one with upsert
RECURSIVE insert_billboard_profiles(_, _, _)
insert_billboard_profiles(coll, results, now) ==
    IF results = <<>> THEN coll
    ELSE insert_billboard_profiles(
            coll \cup {[_id |-> Head(results).billboard_id,
                        profile |-> Head(results).profile, computed_at |-> now]},
            Tail(results), now)

\* database.py: update_one sets profile and computed_at of the document the
\* filter {"_id": billboard_id} finds, or inserts the document
RECURSIVE upsert_billboard_profiles(_, _, _)
upsert_billboard_profiles(coll, results, now) ==
    IF results = <<>> THEN coll
    ELSE LET r == Head(results)
             found == {d \in coll : d._id = r.billboard_id}
             doc == [_id |-> r.billboard_id, profile |-> r.profile, computed_at |-> now]
         IN  upsert_billboard_profiles(
                IF found = {} THEN coll \cup {doc}
                ELSE (coll \ {CHOOSE d \in found : TRUE}) \cup {doc},
                Tail(results), now)

\* the results of the batch files, by increasing batch number up to b
RECURSIVE load_all_batch_results(_, _)
load_all_batch_results(files, b) ==
    IF b = 0 THEN <<>>
    ELSE load_all_batch_results(files, b - 1)
            \o (IF b \in DOMAIN files THEN files[b] ELSE <<>>)

CheckpointData(r, batch_num) ==
    [last_completed_batch |-> batch_num, total_processed |-> r.total_processed,
     total_success |-> r.total_success, total_errors |-> r.total_errors]

OutputData(r) ==
    [total_records |-> r.original_count,
     total_processed |-> r.total_processed, total_success |-> r.total_success,
     total_errors |-> r.total_errors, total_skipped |-> r.skipped_count,
     results |-> r.all_results]

\* the parameters and local variables of a flow that has not started
NoLocals ==
    [flow |-> "runner", no |-> 0, skip_existing |-> FALSE,
     resumed |-> FALSE, records |-> <<>>, original_count |-> 0,
     skipped_count |-> 0, total_batches |-> 0, start_batch |-> 0,
     i |-> 0, at |-> "call", attempt |-> 0, results |-> <<>>,
     error |-> "", all_results |-> <<>>, total_success |-> 0,
     total_errors |-> 0, total_processed |-> 0]

MaxApiRuns == 2

\* the flow is called: lines 131-201 and 246-254 of the runner (a second call
\* resumes), lines 26-27 of billboard_api_flow.py; with nothing to process
\* run_billboard_api_pipeline_v2 writes its output and returns (lines 203-244)
StartRun ==
    /\ api_pc \in {"idle", "interrupted", "raised"}
    /\ api_pc # "idle" => flow_run.flow = "runner" /\ flow_run.no < MaxApiRuns
    /\ \E written_ok \in BOOLEAN :
        LET runner == flow_run.flow = "runner"
            resume_from_checkpoint == api_pc # "idle"
            checkpoint == IF resume_from_checkpoint /\ runner THEN checkpoint_file
                          ELSE <<>>
            batch_results ==
                IF checkpoint # <<>>
                THEN load_all_batch_results(batch_files, Len(input_csv))
                ELSE <<>>
            existing_ids == IF runner /\ flow_run.skip_existing
                            THEN get_existing_billboard_ids(collection, input_csv)
                            ELSE {}
            records == SelectSeq(input_csv, LAMBDA id : id \notin existing_ids)
            \* existing_ids is a set of small numbers, which it yields in
            \* increasing order
            ids == SelectSeq([i \in 1..Len(input_csv) + 1 |-> i],
                             LAMBDA id : id \in existing_ids)
            skipped == [k \in DOMAIN ids |->
                          [billboard_id |-> ids[k], status |-> "skipped", error |-> ""]]
            size == BATCH_SIZE[flow_run.flow]
            started ==
                [flow_run EXCEPT
                    !.no = @ + 1,
                    !.resumed = checkpoint # <<>>,
                    !.records = records,
                    !.original_count = Len(input_csv),
                    !.skipped_count = Len(input_csv) - Len(records),
                    !.total_batches = (Len(records) + size - 1) \div size,
                    !.start_batch = IF checkpoint # <<>>
                                    THEN checkpoint[1].last_completed_batch ELSE 0,
                    !.i = IF checkpoint # <<>>
                          THEN checkpoint[1].last_completed_batch ELSE 0,
                    !.at = "call", !.attempt = 0, !.results = <<>>, !.error = "",
                    !.all_results = batch_results \o skipped,
                    !.total_success = IF checkpoint # <<>>
                                      THEN checkpoint[1].total_success ELSE 0,
                    !.total_errors = IF checkpoint # <<>>
                                     THEN checkpoint[1].total_errors ELSE 0,
                    !.total_processed = IF checkpoint # <<>>
                                        THEN checkpoint[1].total_processed ELSE 0]
            all_skipped == [started EXCEPT !.total_processed = started.skipped_count,
                                           !.total_success = 0, !.total_errors = 0]
        IN  /\ (~written_ok => runner /\ records = <<>>)
            /\ IF records # <<>>
               THEN /\ flow_run' = started
                    /\ api_pc' = "loop"
                    /\ UNCHANGED output_json
               ELSE IF ~runner
               THEN /\ flow_run' = started
                    /\ api_pc' = "returned"
                    /\ UNCHANGED output_json
               ELSE /\ flow_run' = all_skipped
                    /\ api_pc' = IF written_ok THEN "returned" ELSE "raised"
                    /\ output_json' = IF written_ok THEN <<OutputData(all_skipped)>>
                                      ELSE output_json
    /\ UNCHANGED <<input_csv, checkpoint_file, batch_files, collection, api_log>>
    /\ UNCHANGED <<pipeVars, catVars>>

\* process_batch_task and process_batch: one attempt of the task; after
\* RETRY_COUNT retries the exception reaches the flow
ProcessBatchTask ==
    /\ api_pc = "loop"
    /\ flow_run.i < flow_run.total_batches
    /\ flow_run.at = "call"
    /\ LET batch == BatchOf(flow_run.records, flow_run.i, BATCH_SIZE[flow_run.flow])
           entry(ok, results) ==
               [run |-> flow_run.no, batch_num |-> flow_run.i + 1,
                batch |-> batch, ok |-> ok, results |-> results]
       IN  \E answer \in {"ok", "mixed", "short", "raise"} :
            IF answer # "raise"
            THEN /\ flow_run' = [flow_run EXCEPT
                                    !.results = call_billboard_api(batch, answer),
                                    !.at = "persist", !.attempt = 0]
                 /\ api_log' = Append(api_log,
                                      entry(TRUE, call_billboard_api(batch, answer)))
                 /\ UNCHANGED api_pc
            ELSE IF flow_run.attempt < RETRY_COUNT
            THEN /\ flow_run' = [flow_run EXCEPT !.attempt = @ + 1]
                 /\ UNCHANGED <<api_pc, api_log>>
            ELSE /\ api_log' = Append(api_log, entry(FALSE, <<>>))
                 /\ flow_run' = [flow_run EXCEPT !.error = "API returned 500",
                                                 !.at = "except", !.attempt = 0]
                 \* billboard_api_flow.py line 34: nothing catches the exception
                 /\ api_pc' = IF flow_run.flow = "runner" THEN "loop" ELSE "raised"
    /\ UNCHANGED <<input_csv, checkpoint_file, batch_files, output_json, collection>>
    /\ UNCHANGED <<pipeVars, catVars>>

\* persist_batch_results and persist_results: upsert every success
PersistBatchResults ==
    /\ api_pc = "loop"
    /\ flow_run.at = "persist"
    /\ collection' = upsert_billboard_profiles(collection, Successes(flow_run.results),
                                                Len(api_log))
    /\ IF flow_run.flow = "runner"
       THEN /\ flow_run' = [flow_run EXCEPT !.at = "save"]
            /\ UNCHANGED api_pc
       ELSE /\ flow_run' = [flow_run EXCEPT !.i = @ + 1, !.at = "call", !.attempt = 0]
            /\ api_pc' = IF flow_run.i + 1 = flow_run.total_batches THEN "returned"
                         ELSE "loop"
    /\ UNCHANGED <<input_csv, checkpoint_file, batch_files, output_json, api_log>>
    /\ UNCHANGED <<pipeVars, catVars>>

\* lines 271-283: the batch file is written, then the results are collected
\* and counted
SaveBatchResults ==
    /\ api_pc = "loop"
    /\ flow_run.at = "save"
    /\ LET results == flow_run.results
           batch == BatchOf(flow_run.records, flow_run.i, BATCH_SIZE.runner)
           batch_success == Len(Successes(results))
       IN  /\ batch_files' = ((flow_run.i + 1) :> results) @@ batch_files
           /\ flow_run' = [flow_run EXCEPT
                              !.all_results = @ \o results,
                              !.total_success = @ + batch_success,
                              !.total_errors = @ + (Len(results) - batch_success),
                              !.total_processed = @ + Len(batch),
                              !.at = "checkpoint"]
    /\ UNCHANGED <<api_pc, input_csv, checkpoint_file, output_json, collection, api_log>>
    /\ UNCHANGED <<pipeVars, catVars>>

\* lines 285-294: save_checkpoint after the batch, then the next iteration
SaveCheckpoint ==
    /\ api_pc = "loop"
    /\ flow_run.at = "checkpoint"
    /\ checkpoint_file' = <<CheckpointData(flow_run, flow_run.i + 1)>>
    /\ flow_run' = [flow_run EXCEPT !.i = @ + 1, !.at = "call", !.attempt = 0,
                                    !.results = <<>>]
    /\ UNCHANGED <<api_pc, input_csv, batch_files, output_json, collection, api_log>>
    /\ UNCHANGED <<pipeVars, catVars>>

\* lines 298-321: the batch failed after its retries
BatchFailed ==
    /\ api_pc = "loop"
    /\ flow_run.at = "except"
    /\ LET batch == BatchOf(flow_run.records, flow_run.i, BATCH_SIZE.runner)
           counted == [flow_run EXCEPT
                          !.all_results = @ \o ErrorResults(batch, flow_run.error),
                          !.total_errors = @ + Len(batch),
                          !.total_processed = @ + Len(batch)]
       IN  /\ checkpoint_file' = <<CheckpointData(counted, flow_run.i + 1)>>
           /\ flow_run' = [counted EXCEPT !.i = @ + 1, !.at = "call", !.attempt = 0,
                                          !.error = ""]
    /\ UNCHANGED <<api_pc, input_csv, batch_files, output_json, collection, api_log>>
    /\ UNCHANGED <<pipeVars, catVars>>

\* lines 323-358: the output JSON is written, or the write raises
WriteOutput ==
    /\ api_pc = "loop"
    /\ flow_run.flow = "runner"
    /\ flow_run.i >= flow_run.total_batches
    /\ \E written_ok \in BOOLEAN :
        IF written_ok
        THEN /\ output_json' = <<OutputData(flow_run)>>
             /\ api_pc' = "cleanup"
        ELSE /\ api_pc' = "raised"
             /\ UNCHANGED output_json
    /\ UNCHANGED <<input_csv, flow_run, checkpoint_file, batch_files, collection, api_log>>
    /\ UNCHANGED <<pipeVars, catVars>>

\* lines 360-386: cleanup_flow_state, then the flow returns
CleanupFlowState ==
    /\ api_pc = "cleanup"
    /\ checkpoint_file' = <<>>
    /\ batch_files' = <<>>
    /\ api_pc' = "returned"
    /\ UNCHANGED <<input_csv, flow_run, output_json, collection, api_log>>
    /\ UNCHANGED <<pipeVars, catVars>>

\* the process that runs the flow is stopped: its local variables are lost,
\* the files and the store stay
Interrupt ==
    /\ api_pc \in {"loop", "cleanup"}
    /\ flow_run.flow = "runner"
    /\ flow_run.no < MaxApiRuns
    /\ api_pc' = "interrupted"
    /\ flow_run' = [NoLocals EXCEPT !.flow = flow_run.flow, !.no = flow_run.no,
                                    !.skip_existing = flow_run.skip_existing]
    /\ UNCHANGED <<input_csv, checkpoint_file, batch_files, output_json,
                   collection, api_log>>
    /\ UNCHANGED <<pipeVars, catVars>>

NextApi ==
    \/ StartRun
    \/ ProcessBatchTask
    \/ PersistBatchResults
    \/ SaveBatchResults
    \/ SaveCheckpoint
    \/ BatchFailed
    \/ WriteOutput
    \/ CleanupFlowState
    \/ Interrupt

-----------------------------------------------------------------------------
(* SpecApi: input files of zero to MaxBatches batches, a store that holds *)
(* none, one or all of their ids, both flows, skip_existing on and off    *)

MaxBatches == 2

InitApi ==
    \E f \in {"runner", "flow"}, k \in 0..MaxBatches,
       stored \in {"none", "first", "all"}, skip \in BOOLEAN :
        \* no record, or k - 1 full batches and one record more
        LET n == IF k = 0 THEN 0 ELSE (k - 1) * BATCH_SIZE[f] + 1
        IN  /\ (f = "flow" => ~skip)
            /\ (~skip \/ n = 0 => stored = "none")
            /\ api_pc = "idle"
            /\ input_csv = [i \in 1..n |-> i]
            /\ flow_run = [NoLocals EXCEPT !.flow = f, !.skip_existing = skip]
            /\ checkpoint_file = <<>>
            /\ batch_files = <<>>
            /\ output_json = <<>>
            /\ collection = {[_id |-> id, profile |-> "stored", computed_at |-> 0] :
                                id \in CASE stored = "none" -> {}
                                          [] stored = "first" -> {1}
                                          [] stored = "all" -> 1..n}
            /\ api_log = <<>>
            /\ pc = "idle"
            /\ df = Batch(<<>>, <<>>)
            /\ stage_in = df
            /\ raw = df
            /\ config = NoMapping
            /\ todo = <<>>
            /\ calls = <<>>
            /\ written = <<>>
            /\ chain_out = <<>>
            /\ category_file = <<>>
            /\ NORMALIZED_CATEGORY_MAP = <<>>
            /\ cat_saved = <<>>
            /\ transformed = [status |-> "none", category_map |-> <<>>,
                              output |-> <<>>, missing |-> <<>>]
            /\ address_pool = NoPool

SpecApi == InitApi /\ [][NextApi]_vars

\* C15: in run_billboard_api_pipeline_v2, when the API call of a batch still
\* fails after the retries of the task, the except branch appends exactly one
\* result {billboard_id, status "error", error: the exception message} for
\* each record of that batch, in batch order, total_errors and
\* total_processed each grow by the batch size, and total_success is unchanged.
C15_FailedBatchMarked ==
    [][(api_pc = "loop" /\ api_pc' = "loop" /\ flow_run.at = "except"
            /\ flow_run' # flow_run) =>
        LET inBatch == {p \in DOMAIN flow_run.records : (p - 1) \div 10 = flow_run.i}
            before == Len(flow_run.all_results)
        IN  /\ Len(flow_run'.all_results) = before + Cardinality(inBatch)
            /\ SubSeq(flow_run'.all_results, 1, before) = flow_run.all_results
            /\ \A p \in inBatch :
                  flow_run'.all_results[before + p - 10 * flow_run.i]
                    = [billboard_id |-> flow_run.records[p], status |-> "error",
                       error |-> flow_run.error]
            /\ flow_run.error # ""
            /\ flow_run'.total_errors = flow_run.total_errors + Cardinality(inBatch)
            /\ flow_run'.total_processed
                 = flow_run.total_processed + Cardinality(inBatch)
            /\ flow_run'.total_success = flow_run.total_success]_vars

\* the first batch of eleven records, ten of them, failed after its retries
C15_Witness ==
    /\ api_pc = "loop"
    /\ flow_run.i = 1
    /\ Len(api_log) = 1
    /\ api_log[1].ok = FALSE
    /\ Len(api_log[1].batch) = 10
    /\ flow_run.total_success = 0
    /\ flow_run.total_errors = 10
    /\ flow_run.total_processed = 10
    /\ Len(flow_run.all_results) = 10
    /\ flow_run.all_results[10]
         = [billboard_id |-> 10, status |-> "error", error |-> "API returned 500"]

\* C16: a batch whose API call fails on every attempt does not abort the
\* flow: in run_billboard_api_pipeline_v2 and in run_billboard_api_pipeline
\* every later batch is still submitted to the API, and the successes among
\* its results are in the store when the flow has ended.
C16_LaterBatchesSubmitted ==
    api_pc \in {"returned", "raised"} =>
        \A j \in DOMAIN api_log :
            (api_log[j].run = flow_run.no /\ ~api_log[j].ok) =>
                \A b \in (api_log[j].batch_num + 1)..flow_run.total_batches :
                    \E m \in DOMAIN api_log :
                        /\ m > j
                        /\ api_log[m].run = flow_run.no
                        /\ api_log[m].batch_num = b
                        /\ \A k \in DOMAIN api_log[m].results :
                              api_log[m].results[k].status = "success"
                              => \E d \in collection :
                                    d._id = api_log[m].results[k].billboard_id

\* C17: when run_billboard_api_pipeline_v2 returns, the results of its output
\* hold exactly one entry for every record of the input CSV, with status
\* success, error or skipped, and total_success + total_errors +
\* total_skipped is the number of input records, whatever the API answers
\* and with skip_existing on or off.
C17_OneResultPerRecord ==
    (api_pc = "returned" /\ flow_run.flow = "runner") =>
        LET out == output_json[1]
        IN  /\ Len(out.results) = Len(input_csv)
            /\ \A p \in DOMAIN input_csv :
                  Cardinality({k \in DOMAIN out.results :
                                  out.results[k].billboard_id = input_csv[p]}) = 1
            /\ \A k \in DOMAIN out.results :
                  out.results[k].status \in {"success", "error", "skipped"}
            /\ out.total_success + out.total_errors + out.total_skipped
                 = Len(input_csv)

\* C18: when a run of run_billboard_api_pipeline_v2 was interrupted and the
\* flow is run again with resume_from_checkpoint on the same input and run
\* id, the resumed run submits only batches with an index greater than the
\* last_completed_batch of the checkpoint, each once, and over the two runs
\* every input record was submitted to the API or is reported as skipped.
C18_ResumeCoversInput ==
    (api_pc = "returned" /\ flow_run.flow = "runner" /\ flow_run.no = 2) =>
        LET resumed == {j \in DOMAIN api_log : api_log[j].run = 2}
            results == output_json[1].results
        IN  /\ \A j \in resumed : api_log[j].batch_num > flow_run.start_batch
            /\ \A j, m \in resumed :
                  api_log[j].batch_num = api_log[m].batch_num => j = m
            /\ \A p \in DOMAIN input_csv :
                  \/ \E j \in DOMAIN api_log : input_csv[p] \in Range(api_log[j].batch)
                  \/ \E k \in DOMAIN results :
                        /\ results[k].billboard_id = input_csv[p]
                        /\ results[k].status = "skipped"

\* C19: at every point of a run, for every batch index b up to the
\* last_completed_batch of the checkpoint there is a batch-result file of b
\* that holds the results of that batch, whether batch b succeeded or failed
\* after its retries.
C19_CompletedBatchesHaveFiles ==
    checkpoint_file # <<>> =>
        \A j \in DOMAIN api_log :
            api_log[j].batch_num <= checkpoint_file[1].last_completed_batch =>
                /\ api_log[j].batch_num \in DOMAIN batch_files
                /\ api_log[j].ok =>
                      batch_files[api_log[j].batch_num] = api_log[j].results

\* C20: the checkpoint file and the batch-result files of a run are deleted
\* only after the output JSON of the run has been written; whenever
\* run_billboard_api_pipeline_v2 returns normally none of the state files of
\* the run remain, and when writing the output fails they are all kept.
C20_StateFilesCleaned ==
    /\ [](api_pc = "returned" /\ flow_run.flow = "runner"
            => checkpoint_file = <<>> /\ batch_files = <<>>)
    /\ [][(checkpoint_file # <<>> /\ checkpoint_file' = <<>>)
             \/ (DOMAIN batch_files' # DOMAIN batch_files
                    /\ DOMAIN batch_files' \subseteq DOMAIN batch_files)
          => output_json # <<>> /\ output_json[1].results = flow_run.all_results]_vars
    /\ [][api_pc' = "raised" /\ flow_run.flow = "runner"
          => UNCHANGED <<checkpoint_file, batch_files>>]_vars

\* C21: only results with status "success" are written to the store, each
\* by an upsert keyed on billboard_id that sets profile and computed_at:
\* after any sequence of batches, also batches submitted twice, the store
\* holds at most one document per billboard_id, and a step creates or
\* changes a document only for a success among the results of the batch.
C21_OnlySuccessesUpserted ==
    /\ [](\A d, e \in collection : d._id = e._id => d = e)
    /\ [][collection' # collection =>
            LET ok == {k \in DOMAIN flow_run.results :
                          flow_run.results[k].status = "success"}
            IN  /\ flow_run.at = "persist"
                /\ \A d \in (collection' \ collection) \cup (collection \ collection') :
                      \E k \in ok : flow_run.results[k].billboard_id = d._id
                /\ \A k \in ok :
                      [_id |-> flow_run.results[k].billboard_id,
                       profile |-> flow_run.results[k].profile,
                       computed_at |-> Len(api_log)] \in collection']_vars

\* a batch of ten was submitted in the interrupted and in the resumed run,
\* each time with one success and nine errors
C21_Witness ==
    /\ Len(api_log) = 2
    /\ api_log[1].batch = api_log[2].batch
    /\ Len(api_log[2].results) = 10
    /\ api_log[1].results[1].status = "success"
    /\ api_log[2].results[2].status = "error"
    /\ collection = {[_id |-> 1, profile |-> "profile", computed_at |-> 2]}

-----------------------------------------------------------------------------
(* The worker pool of transform_dataframe: one future per element of coords, *)
(* each running fetch_address; a coordinate pair is a token, and a row       *)
(* without coordinates is "none" and is not in coords.                       *)

MAX_WORKERS == 5

NoAddress == <<Null, Null, Null, Null>>

\* lines 110-116 without the test of line 110
FetchResultUnchecked(answer) ==
    IF answer = "exception" THEN NoAddress
    ELSE <<Word("formatted"), Word("city"), Null, Null>>

\* lines 108-116: what fetch_address makes of the answer of the service
FetchResult(answer) ==
    IF answer = "ok" THEN <<Word("formatted"), Word("city"), Null, Null>>
    ELSE NoAddress

\* the futures that a worker runs: past the cache lookup, not yet returned
Running == {w \in DOMAIN address_pool.futures : address_pool.futures[w].at = "requesting"}

\* lines 96-107: a worker takes a submitted call; a key found in the cache
\* is returned, for any other key the geocoder is requested
FetchAddress ==
    /\ pc = "pool"
    /\ \E w \in DOMAIN address_pool.futures :
        LET key == address_pool.futures[w].key
        IN  /\ address_pool.futures[w].at = "submitted"
            /\ Cardinality(Running) < MAX_WORKERS
            /\ IF key \in DOMAIN address_pool.cache
               THEN address_pool' =
                       [address_pool EXCEPT
                           !.futures[w] = [key |-> key, at |-> "done", answer |-> "cached",
                                           result |-> address_pool.cache[key]],
                           \* lines 254-256: as_completed
                           !.address_results = (key :> address_pool.cache[key]) @@ @]
               ELSE address_pool' =
                       [address_pool EXCEPT
                           !.futures[w].at = "requesting",
                           !.requests = Append(@, key)]
    /\ UNCHANGED <<pipeVars, apiVars>>
    /\ UNCHANGED <<category_file, NORMALIZED_CATEGORY_MAP, cat_saved, transformed>>

\* lines 107-119: the request ends with an address, with an empty answer or
\* with an exception; the result is stored in the cache and returned
StoreAddress ==
    /\ pc = "pool"
    /\ \E w \in DOMAIN address_pool.futures, answer \in {"ok", "empty", "exception"} :
        LET key == address_pool.futures[w].key
            result == FetchResult(answer)
        IN  /\ address_pool.futures[w].at = "requesting"
            /\ address_pool' =
                  [address_pool EXCEPT
                      !.cache = (key :> result) @@ @,
                      !.futures[w] = [key |-> key, at |-> "done", answer |-> answer,
                                      result |-> result],
                      \* lines 254-256: as_completed
                      !.address_results = (key :> result) @@ @]
    /\ UNCHANGED <<pipeVars, apiVars>>
    /\ UNCHANGED <<category_file, NORMALIZED_CATEGORY_MAP, cat_saved, transformed>>

\* lines 261-266: every row reads the address of its coordinates
ReadAddresses ==
    /\ pc = "pool"
    /\ \A w \in DOMAIN address_pool.futures : address_pool.futures[w].at = "done"
    /\ address_pool' =
          [address_pool EXCEPT
              !.output = [i \in DOMAIN address_pool.rows |->
                            IF address_pool.rows[i] \in DOMAIN address_pool.address_results
                            THEN address_pool.address_results[address_pool.rows[i]]
                            ELSE NoAddress]]
    /\ pc' = "pool_done"
    /\ UNCHANGED <<df, stage_in, raw, config, todo, calls, written, chain_out>>
    /\ UNCHANGED apiVars
    /\ UNCHANGED <<category_file, NORMALIZED_CATEGORY_MAP, cat_saved, transformed>>

NextPool == FetchAddress \/ StoreAddress \/ ReadAddresses

-----------------------------------------------------------------------------
(* SpecPool: batches whose rows share coordinates, differ in them or have *)
(* none, with an empty cache or one that holds the first pair             *)

MaxPoolRows == 3

InitPool ==
    \E rows \in SeqsUpTo({"12.9,77.6", "13.0,77.5", "none"}, MaxPoolRows),
       cached \in SUBSET {"12.9,77.6"} :
        LET coords == SelectSeq(rows, LAMBDA c : c # "none")
        IN  /\ pc = "pool"
            /\ df = Batch(<<>>, <<>>)
            /\ stage_in = df
            /\ raw = df
            /\ config = NoMapping
            /\ todo = <<>>
            /\ calls = <<>>
            /\ written = <<>>
            /\ chain_out = <<>>
            /\ category_file = <<>>
            /\ NORMALIZED_CATEGORY_MAP = <<>>
            /\ cat_saved = <<>>
            /\ transformed = [status |-> "none", category_map |-> <<>>,
                              output |-> <<>>, missing |-> <<>>]
            /\ address_pool =
                  [NoPool EXCEPT
                      !.rows = rows,
                      !.futures = [w \in DOMAIN coords |->
                                     [key |-> coords[w], at |-> "submitted",
                                      answer |-> "", result |-> NoAddress]],
                      !.cache = [k \in cached |-> <<Word("formatted"), Word("city"),
                                                   Null, Null>>]]
            /\ NoFlow

SpecPool == InitPool /\ [][NextPool]_vars

\* C22: while the workers call fetch_address concurrently, the geocoder is
\* requested at most once for every "lat,lon" key, a cache entry once
\* written never changes, and all rows with the same key get the same
\* address, whatever the order in which the workers finish.
C22_CacheWrittenOnce ==
    /\ [](\A i, j \in DOMAIN address_pool.requests :
            address_pool.requests[i] = address_pool.requests[j] => i = j)
    /\ [][\A k \in DOMAIN address_pool.cache :
            address_pool'.cache[k] = address_pool.cache[k]]_vars
    /\ [](\A i, j \in DOMAIN address_pool.output :
            address_pool.rows[i] = address_pool.rows[j]
            => address_pool.output[i] = address_pool.output[j])

-----------------------------------------------------------------------------
(* SpecGeocoding: the two places that call a geocoder, the worker pool and *)
(* the loop of extract_geography, on rows with and without coordinates and *)
(* with a null, blank or given location                                    *)

MaxGeocodeRows == 2

InitGeocode ==
    LET LocationCells == {Null, Str(<<" ">>), Word("Main")}
        Cells == {Null, Num(12)} \X LocationCells
    IN  \E cells \in SeqsUpTo(Cells, MaxGeocodeRows) :
            Loaded(Batch(<<"billboard_id", "latitude", "longitude", "location">>,
                         [i \in DOMAIN cells |->
                             ("billboard_id" :> Word(RowIds[i]))
                             @@ ("latitude" :> cells[i][1])
                             @@ ("longitude" :> Num(77))
                             @@ ("location" :> cells[i][2])]),
                   NoMapping)

NextGeocoding == NextChain \/ NextPool

SpecGeocoding == (InitGeocode \/ InitPool) /\ [][NextGeocoding]_vars

-----------------------------------------------------------------------------
(* The coordinate parser of transform_dataframe (post_processing.py) *)

\* parse_coords of transform_dataframe:
\* re.search(r'(-?\d+(?:\.\d+)?)[,\s]+(-?\d+(?:\.\d+)?)') on the stripped text,
\* group 1 is the latitude and group 2 the longitude (numbers are integers here)
parse_coords_transform(val) ==
    IF IsNa(val) THEN <<Null, Null>>
    ELSE LET s == Strip(AsStr(val, FALSE))
             Sep == WS \cup {","}
             \* -?\d+ at position i: where it ends, or 0
             numEnd(i) ==
                 LET d == IF i <= Len(s) /\ s[i] = "-" THEN i + 1 ELSE i
                 IN  IF d <= Len(s) /\ IsDigit(s[d]) THEN RunEnd(s, d) ELSE 0
             number(i) ==
                 IF s[i] = "-" THEN 0 - DigitsVal(SubSeq(s, i + 1, numEnd(i)))
                 ELSE DigitsVal(SubSeq(s, i, numEnd(i)))
             \* [,\s]+ from position k: the position after the run
             afterSep(k) ==
                 CHOOSE j \in k..(Len(s) + 1) :
                     /\ \A m \in k..(j - 1) : s[m] \in Sep
                     /\ j = Len(s) + 1 \/ s[j] \notin Sep
             matches(i) ==
                 /\ numEnd(i) > 0
                 /\ afterSep(numEnd(i) + 1) > numEnd(i) + 1
                 /\ numEnd(afterSep(numEnd(i) + 1)) > 0
             starts == {i \in DOMAIN s : matches(i)}
         IN  IF starts = {} THEN <<Null, Null>>
             ELSE LET i == CHOOSE x \in starts : \A y \in starts : x <= y
                  IN  <<Num(number(i)), Num(number(afterSep(numEnd(i) + 1)))>>

\* C24: parse_coord_string of processing.py, parse_coords of flow.py and
\* parse_coords of transform_dataframe read a string "A,B" in the same
\* order: the same coordinates string gives the same (latitude, longitude)
\* pair in every stage.
C24_ParsersAgree ==
    (pc = "geo_done" /\ HasCol(stage_in, "coordinates")) =>
        \A i \in DOMAIN stage_in.rows :
            LET c == stage_in.rows[i]["coordinates"]
            IN  c.k = "str" /\ parse_coord_string(c) # <<Null, Null>> =>
                    /\ parse_coords(c) = parse_coord_string(c)
                    /\ parse_coords_transform(c) = parse_coord_string(c)

\* C25: the two base-rate conversions are equivalent: for every
\* minimal_price p, the rate p * 4.285 that calculate_financials writes is the
\* rate (p / 7) * 30 that apply_business_logic computes from the same price.
C25_ConversionsAgree ==
    (pc = "priced" /\ HasCol(stage_in, "minimal_price")) =>
        \A i \in DOMAIN df.rows :
            LET p == clean_numeric(stage_in.rows[i]["minimal_price"])
            IN  (NotNa(p) /\ IsNa(stage_in.rows[i]["base_rate_per_month"])) =>
                    df.rows[i]["base_rate_per_month"] = Num(Div7Times30(p.n))

\* C26: extract_geography, fill_dimensions and calculate_financials each
\* return exactly the rows they received, in the same order and with the
\* same billboard_id values, and none of them removes a column that its
\* input had.
C26_StagesKeepRowsAndColumns ==
    pc \in {"geocoding", "geo_done", "filled", "priced"} =>
        /\ Len(df.rows) = Len(stage_in.rows)
        /\ \A i \in DOMAIN stage_in.rows :
              /\ df.rows[i][INDEX] = stage_in.rows[i][INDEX]
              /\ df.rows[i]["billboard_id"] = stage_in.rows[i]["billboard_id"]
        /\ Range(stage_in.cols) \subseteq Range(df.cols)

\* two rows with different ids went through the three stages, which added
\* columns and kept the city column that none of them reads
C26_Witness ==
    /\ pc = "priced"
    /\ Len(df.rows) = 2
    /\ df.rows[1]["billboard_id"] # df.rows[2]["billboard_id"]
    /\ HasCol(stage_in, "city") /\ HasCol(stage_in, "minimal_price")
    /\ HasCol(df, "card_rate_per_unit") /\ ~HasCol(stage_in, "card_rate_per_unit")
    /\ chain_out = <<>>

\* C27: in fill_dimensions a row whose width_ft (height_ft) is still null
\* after the dimension-string extraction gets 25.0 (5.0) if its format_type
\* is Bus_Shelter; otherwise the mean of the non-null width_ft (height_ft)
\* of the rows of the batch with the same format_type, taken before any
\* default is filled in; otherwise 20.0 (10.0).
C27_FillPriority ==
    pc = "filled" =>
        LET numeric(c) == ToNumericScaled(c, DimScale)
            \* the batch after lines 163-177
            mid == ExtractDims(
                       [cols |-> stage_in.cols,
                        rows |-> [i \in DOMAIN stage_in.rows |->
                                    [stage_in.rows[i] EXCEPT
                                        !["width_ft"] = numeric(@),
                                        !["height_ft"] = numeric(@)]]])
            group(i, c) ==
                SelectSeq(mid.rows,
                          LAMBDA x : /\ NotNa(mid.rows[i]["format_type"])
                                     /\ x["format_type"] = mid.rows[i]["format_type"]
                                     /\ NotNa(x[c]))
            expected(i, c, busShelter, fallback) ==
                IF mid.rows[i]["format_type"] = Word("Bus_Shelter") THEN busShelter
                ELSE IF group(i, c) # <<>>
                     THEN SumCol(group(i, c), c) \div Len(group(i, c))
                ELSE fallback
        IN  \A i \in DOMAIN df.rows :
                /\ IsNa(mid.rows[i]["width_ft"]) =>
                      df.rows[i]["width_ft"] = Num(expected(i, "width_ft", 25 * DimScale,
                                                            20 * DimScale))
                /\ IsNa(mid.rows[i]["height_ft"]) =>
                      df.rows[i]["height_ft"] = Num(expected(i, "height_ft", 5 * DimScale,
                                                             10 * DimScale))

-----------------------------------------------------------------------------
(* SpecExplicit: batches that come with sizes, frequencies and rates of      *)
(* their own, through mapping_pipeline                                        *)

MaxExplicitRows == 1

InitExplicit ==
    LET WidthCells == {Null, Num(12 * DimScale)}
        DimensionCells == {Null, Str(<<"1", "0", "W", " ", "5", "h">>)}
        FrequencyCells == {Null, Num(3)}
        BaseCells == {Null, Num(200 * MoneyScale)}
        PriceCells == {Null, Num(10000 * MoneyScale)}
        ExplicitBatch(hasSize, hasFrequency, hasRates, cells) ==
            Batch(<<"billboard_id", "latitude", "longitude", "image_urls">>
                    \o (IF hasSize THEN <<"width_ft", "height_ft", "dimensions">>
                        ELSE <<>>)
                    \o (IF hasFrequency THEN <<"frequency_per_minute">> ELSE <<>>)
                    \o (IF hasRates
                        THEN <<"base_rate_per_month", "card_rate_per_month",
                               "minimal_price">>
                        ELSE <<>>),
                  [i \in DOMAIN cells |->
                      ("billboard_id" :> Word(RowIds[i]))
                      @@ ("latitude" :> Num(12)) @@ ("longitude" :> Num(77))
                      @@ ("image_urls" :> Word("http"))
                      @@ ("width_ft" :> IF hasSize THEN cells[i][1] ELSE Null)
                      @@ ("height_ft" :> IF hasSize THEN cells[i][1] ELSE Null)
                      @@ ("dimensions" :> IF hasSize THEN cells[i][2] ELSE Null)
                      @@ ("frequency_per_minute" :>
                            IF hasFrequency THEN cells[i][3] ELSE Null)
                      @@ ("base_rate_per_month" :> IF hasRates THEN cells[i][4] ELSE Null)
                      @@ ("card_rate_per_month" :> IF hasRates THEN cells[i][4] ELSE Null)
                      @@ ("minimal_price" :> IF hasRates THEN cells[i][5] ELSE Null)])
    IN  \E hasSize \in BOOLEAN, hasFrequency \in BOOLEAN, hasRates \in BOOLEAN,
           cells \in SeqsUpTo(WidthCells \X DimensionCells \X FrequencyCells
                                \X BaseCells \X PriceCells, MaxExplicitRows) :
            Loaded(ExplicitBatch(hasSize, hasFrequency, hasRates, cells), NoMapping)

SpecExplicit == InitExplicit /\ [][NextFlow]_vars

\* C28: apply_business_logic never replaces a non-null value that its input
\* holds in width_ft, height_ft, frequency_per_minute, base_rate_per_month or
\* card_rate_per_month: what it parses, derives or defaults is written only
\* where the field is missing.
C28_ExplicitValuesKept ==
    [][(\E k \in 1..10 : pc = AblPc[k]) =>
          \A i \in DOMAIN df'.rows :
              \A c \in {"width_ft", "height_ft", "frequency_per_minute",
                        "base_rate_per_month", "card_rate_per_month"} :
                  LET before == RowAt(df, df'.rows[i][INDEX])[c]
                  IN  NotNa(before) => df'.rows[i][c] = before]_vars

\* C29: extract_geography calls the reverse geocoder exactly once for each
\* row whose location is null or blank and whose latitude and longitude are
\* both present, one row at a time in the order of the batch, and for no
\* other row; the location of every row that came with non-blank text is
\* unchanged.
C29_GeocodedRows ==
    pc \in {"geocoding", "geo_done"} =>
        LET \* the location a row has when the loop starts (lines 104-109)
            given(i) ==
                IF HasCol(stage_in, "location") THEN stage_in.rows[i]["location"]
                ELSE IF HasCol(stage_in, "address") THEN stage_in.rows[i]["address"]
                ELSE Null
            blank(c) == c = Null \/ (c.k = "str" /\ \A j \in DOMAIN c.s : c.s[j] = " ")
            due == SelectSeq([i \in DOMAIN df.rows |-> i],
                             LAMBDA i : /\ blank(given(i))
                                        /\ df.rows[i]["latitude"].k = "num"
                                        /\ df.rows[i]["longitude"].k = "num")
            called == [k \in DOMAIN calls |-> calls[k][1]]
        IN  /\ called \o todo = [k \in DOMAIN due |-> df.rows[due[k]][INDEX]]
            /\ \A k \in DOMAIN calls :
                  /\ calls[k][2] = RowAt(df, calls[k][1])["latitude"]
                  /\ calls[k][3] = RowAt(df, calls[k][1])["longitude"]
                  /\ RowAt(df, calls[k][1])["location"] = calls[k][4]
            /\ \A i \in DOMAIN df.rows :
                  ~blank(given(i)) => df.rows[i]["location"] = given(i)

\* of two rows with coordinates the first came with the location "Main" and
\* the second with a blank one: the geocoder was asked once, for the second
C29_Witness ==
    /\ pc = "geo_done"
    /\ Len(df.rows) = 2
    /\ stage_in.rows[1]["location"] = Word("Main")
    /\ stage_in.rows[2]["location"] = Str(<<" ">>)
    /\ df.rows[1]["latitude"] = Num(12) /\ df.rows[2]["latitude"] = Num(12)
    /\ Len(calls) = 1
    /\ calls[1][1] = df.rows[2][INDEX]
    /\ df.rows[2]["location"] = Word("Addr")

\* C30: both batch flows split the record list into consecutive slices of at
\* most BATCH_SIZE records that cover every record exactly once in input
\* order: there are ceil(n / BATCH_SIZE) batches, none is empty, only the
\* last may be shorter than BATCH_SIZE, and the batches are submitted in
\* increasing index order.
C30_BatchesPartitionRecords ==
    LET size == IF flow_run.flow = "runner" THEN 10 ELSE 25
        records == flow_run.records
        n == Len(records)
        ceil == CHOOSE m \in 0..n : m * size >= n /\ (m = 0 \/ (m - 1) * size < n)
        \* the batches this call of the flow has submitted, in order
        sent == SelectSeq(api_log, LAMBDA e : e.run = flow_run.no)
    IN  /\ api_pc \in {"loop", "returned", "raised"} =>
              /\ flow_run.total_batches = ceil
              /\ \A k \in DOMAIN sent :
                    /\ sent[k].batch_num = flow_run.start_batch + k
                    /\ sent[k].batch_num <= ceil
                    /\ sent[k].batch # <<>>
                    /\ Len(sent[k].batch) <= size
                    /\ sent[k].batch_num < ceil => Len(sent[k].batch) = size
                    /\ \A j \in DOMAIN sent[k].batch :
                          /\ (sent[k].batch_num - 1) * size + j <= n
                          /\ sent[k].batch[j]
                                = records[(sent[k].batch_num - 1) * size + j]
        \* when the flow returns, every record of its list was in the batch
        \* of its position, submitted by this call or by the call it resumes
        /\ api_pc = "returned" =>
              \A p \in 1..n :
                  \E k \in DOMAIN api_log :
                      /\ api_log[k].batch_num = ((p - 1) \div size) + 1
                      /\ ((p - 1) % size) + 1 \in DOMAIN api_log[k].batch
                      /\ api_log[k].batch[((p - 1) % size) + 1] = records[p]

====
